---- MODULE Spec2Model ----
(***************************************************************************)
(* Attendance backend (src/main.go): the in-memory presence map            *)
(* currentAttendees guarded by the RWMutex mu, the sessions table, the     *)
(* snapshot file current_attendees.json, the request handlers and the      *)
(* nightly cleanup goroutine.                                              *)
(*                                                                         *)
(* Granularity.  Every section of code that runs between mu.Lock/RLock and *)
(* the matching Unlock/RUnlock is one action, enabled only while no other  *)
(* goroutine holds mu; everything between two such sections (a database    *)
(* insert, a file write, a call of time.Now) is an action of its own, so   *)
(* that other goroutines and the clock interleave exactly where the code   *)
(* lets them.  The one place where the code leaves a lock section without  *)
(* unlocking (startNightlyCleanup, cnt == 0) is modelled with the lock as  *)
(* explicit state.                                                         *)
(*                                                                         *)
(* Time is a tick counter; time.Now() reads it.  RFC3339 formatting keeps  *)
(* whole seconds only (TicksPerSec ticks each).                            *)
(***************************************************************************)
EXTENDS Integers, Sequences, FiniteSets, TLC

\* ---- bounds of the model ----
NumProcs == 2        \* request goroutines; each serves one request
MaxTime == 2         \* the clock stops ticking here
MaxRestarts == 1     \* kills of the process, each followed by a new start
MaxScans == 12       \* scan events recorded since the start

\* ---- scaled program constants ----
TicksPerSec == 2     \* time.RFC3339 has second granularity
FourAMTick == 1      \* 04:00:00 local, as an offset into the day
DayTicks == 6        \* 24 * time.Hour
FourAMHour == 4      \* time.Date(..., 4, 0, 0, 0, now.Location())
AddHours == 24       \* next.Add(24 * time.Hour)
MaxScanHistory == 10 \* recordScanEvent keeps the last 10

Procs == 1..NumProcs

\* ---- data ----
\* Member rows (Name is only used in messages and is left out)
NoMember == [ID |-> 0, UID |-> "", DiscordID |-> ""]
InitMembers ==
    { [ID |-> 1, UID |-> "U1", DiscordID |-> "D1"],
      [ID |-> 2, UID |-> "U2", DiscordID |-> "D2"] }

\* inputs of the requests
ScanUIDs == {"U1", "U2", "UX"}
DiscordIDs == {"D1", "DX"}

NoTime == -1
EmptyMap == [u \in {} |-> 0]

\* the maps a restart can load from the snapshot file
InitMaps ==
    { EmptyMap,
      [u \in {"U1"} |-> 0],
      [u \in {"U1", "U2"} |-> 0] }

\* ---- pure helpers ----
\* signin.Format(time.RFC3339): sub-second part is dropped
Format(t) == t \div TicksPerSec

\* loadMembersIntoCache: cache[m.UID] = m for every row
CacheOf(rows) ==
    [u \in {m.UID : m \in rows} |-> CHOOSE m \in rows : m.UID = u]

\* member, exists := userDB[uid]
UserExists_Always(db, uid) == TRUE

UserExists(db, uid) == uid \in DOMAIN db

UserOf(db, uid) == IF uid \in DOMAIN db THEN db[uid] ELSE NoMember

\* for _, m := range userDB { if m.DiscordID == id { ... break } }
MembersByDiscord(db, id) == {db[u] : u \in {x \in DOMAIN db : db[x].DiscordID = id}}

\* currentAttendees[uid] = t
MapPut_Lost(m, uid, t) == [u \in {uid} |-> t]

MapPut(m, uid, t) == [u \in DOMAIN m \cup {uid} |-> IF u = uid THEN t ELSE m[u]]

\* delete(currentAttendees, uid)
MapDelete_Keep(m, uid) == m

MapDelete(m, uid) == [u \in DOMAIN m \ {uid} |-> m[u]]

\* currentAttendees = make(map[string]time.Time)
ClearedMap_KeepOne(m) ==
    IF DOMAIN m = {} THEN m
    ELSE [u \in {CHOOSE x \in DOMAIN m : TRUE} |-> m[u]]

ClearedMap(m) == EmptyMap

\* what a range loop over m has left after the turn for uid
StillToDo(m, uid) == [u \in DOMAIN m \ {uid} |-> m[u]]

\* len(currentAttendees)
MapLen(m) == Cardinality(DOMAIN m)

\* a history that stops taking events once it holds 10
AppendTrim_KeepFirst(h, e) ==
    IF Len(h) >= MaxScanHistory THEN h ELSE Append(h, e)

\* scanHistory = append(scanHistory, e); keep the last 10
AppendTrim(h, e) ==
    LET a == Append(h, e)
    IN  IF Len(a) > MaxScanHistory
        THEN SubSeq(a, Len(a) - MaxScanHistory + 1, Len(a))
        ELSE a

\* ---- current_attendees.json ----
\* json.MarshalIndent(copyMap): one entry per key; a time.Time is written in
\* RFC3339Nano, whole seconds and the fraction of a second
MarshalTime_Seconds(t) == [sec |-> t \div TicksPerSec, frac |-> 0]

MarshalTime(t) == [sec |-> t \div TicksPerSec, frac |-> t % TicksPerSec]

Marshal(m) == {[key |-> u, val |-> MarshalTime(m[u])] : u \in DOMAIN m}

\* time.Time.UnmarshalJSON
UnmarshalTime(v) == v.sec * TicksPerSec + v.frac

\* json.Unmarshal(bytes, &loaded)
Unmarshal(entries) ==
    [u \in {e.key : e \in entries} |->
        UnmarshalTime((CHOOSE e \in entries : e.key = u).val)]

\* the file: absent, not JSON, or the JSON object written by os.WriteFile
NoFile == [kind |-> "missing", entries |-> {}]

BadFile == [kind |-> "malformed", entries |-> {}]

FileOf(m) == [kind |-> "json", entries |-> Marshal(m)]

\* next 04:00 as computed at the top of the cleanup loop
TodayFourAM(t) == (t \div DayTicks) * DayTicks + FourAMTick

VARIABLES
    now,              \* the wall clock
    members,          \* members table
    userDB,           \* cache UID -> Member
    currentAttendees, \* UID -> sign-in time
    scanHistory,      \* last scan events
    sessions,         \* sessions table, in insertion order
    snapFile,         \* content of current_attendees.json
    mu,               \* "free", or the goroutine that holds the write lock
    call,             \* per request goroutine: position and locals
    sweeper,          \* the cleanup goroutine: position and locals
    main,             \* the main goroutine: position, outcome of the load
    closures,         \* history: how often interval <<uid, start>> was removed
    sessionBy,        \* history: who wrote sessions[i], for which interval
    lastSaved,        \* history: the map of the last completed file write
    scanLog           \* history: every scan event recorded since the start

vars == <<now, members, userDB, currentAttendees, scanHistory, sessions,
          snapFile, mu, call, sweeper, main, closures, sessionBy, lastSaved,
          scanLog>>

IdleCall ==
    [pc |-> "init", op |-> "none", arg |-> "", eventTime |-> NoTime,
     member |-> NoMember, signInTime |-> NoTime, copyMap |-> EmptyMap,
     toSignOut |-> EmptyMap, count |-> 0, ret |-> "none", resp |-> "none",
     id |-> 0, cache |-> EmptyMap, activeList |-> <<>>, logged |-> 0,
     at |-> NoTime, prior |-> {}, preIn |-> FALSE,
     appendErrs |-> 0, writeErr |-> FALSE, cascaded |-> 0,
     seen |-> EmptyMap, path |-> "", apiKey |-> "", history |-> <<>>,
     from |-> NoTime, to |-> NoTime, limit |-> NoTime, reloadErr |-> FALSE,
     file |-> <<>>, rows |-> <<>>, added |-> 0, insertErrs |-> 0]

\* the cleanup goroutine before its first turn
IdleSweeper ==
    [pc |-> "idle", next |-> NoTime, cnt |-> 0, toSignOut |-> EmptyMap,
     logged |-> 0, sweeps |-> 0, appendErrs |-> 0, cut |-> FALSE]

\* main() at ListenAndServe, the snapshot file read without an error
Serving == [pc |-> "serving", loaded |-> "json", boots |-> 0, keys |-> {}]

Init ==
    /\ now = 0
    /\ members = InitMembers
    /\ userDB = CacheOf(InitMembers)
    /\ currentAttendees \in InitMaps
    /\ snapFile = FileOf(currentAttendees)
    /\ scanHistory = <<>>
    /\ scanLog = <<>>
    /\ sessions = <<>>
    /\ mu = "free"
    /\ call = [p \in Procs |-> IdleCall]
    /\ sweeper = IdleSweeper
    /\ main = Serving
    /\ closures = EmptyMap
    /\ sessionBy = <<>>
    /\ lastSaved = currentAttendees

\* ---- bookkeeping helpers (history variables only) ----
CountOf(b, k) == IF k \in DOMAIN b THEN b[k] ELSE 0

BagAddSet(b, S) ==
    [k \in DOMAIN b \cup S |-> CountOf(b, k) + (IF k \in S THEN 1 ELSE 0)]

Intervals(m) == {<<u, m[u]>> : u \in DOMAIN m}

Done(p) == call[p].pc = "done"

\* the uid a request is about, as the directory resolves it
TargetUIDs(op, arg) ==
    IF op = "scan" THEN {arg}
    ELSE {m.UID : m \in MembersByDiscord(userDB, arg)}

\* ---- the clock ----
Tick ==
    /\ now < MaxTime
    /\ now' = now + 1
    /\ UNCHANGED <<main, lastSaved, members, userDB, currentAttendees, scanHistory, scanLog, sessions,
                   snapFile, mu, call, sweeper, closures, sessionBy>>

\* who wrote a session row: request goroutine p, or the k-th nightly sweep
CleanupWriter(k) == 0 - k

\* ---- saveSessionToDB ----
\* INSERT INTO sessions ...; fails on an I/O error or when member_id has no
\* row in members (FOREIGN KEY, foreign_keys = ON)
SessionRow(memberID, signin, signout) ==
    [member_id |-> memberID, signin_time |-> Format(signin),
     signout_time |-> Format(signout)]

saveSessionToDB(memberID, signin, signout, who, uid) ==
    /\ memberID \in {m.ID : m \in members}
    /\ sessions' = Append(sessions, SessionRow(memberID, signin, signout))
    /\ sessionBy' = Append(sessionBy, [by |-> who, uid |-> uid, start |-> signin])

saveSessionFails == UNCHANGED <<sessions, sessionBy>>

\* ---- a request arrives ----
\* Request goroutines are interchangeable: slot p is taken only once the
\* slots below it are.
\* the locals of a handler at its first statement
NewCall(op, arg) ==
    [IdleCall EXCEPT
       !.pc = CASE op = "scan" -> "scan_record"
                [] op = "signin" -> "in_find"
                [] op = "signout" -> "out_find"
                [] op = "current" -> "cur_copy"
                [] op = "count" -> "cnt_len"
                [] op = "health" -> "health"
                [] op = "scanhist" -> "hist_copy"
                [] op = "history" -> "hist_load"
                [] op = "visits" -> "visits_delete"
                [] OTHER -> "all_clear",
       !.op = op, !.arg = arg,
       !.eventTime = IF op = "scan" THEN now ELSE NoTime,
       !.prior = {q \in Procs : Done(q)},
       !.preIn = (TargetUIDs(op, arg) \cap DOMAIN currentAttendees # {})]

Start(p, op, arg) ==
    /\ main.pc = "serving"
    /\ call[p].pc = "init"
    /\ \A q \in Procs : q < p => call[q].pc # "init"
    /\ call' = [call EXCEPT ![p] = NewCall(op, arg)]
    /\ UNCHANGED <<main, lastSaved, now, members, userDB, currentAttendees, scanHistory, scanLog,
                   sessions, snapFile, mu, sweeper, closures, sessionBy>>

\* ---- handleScan ----
\* recordScanEvent(req.UID, eventTime)
recordScanEvent(p) ==
    /\ call[p].pc = "scan_record"
    /\ mu = "free"
    /\ Len(scanLog) < MaxScans
    /\ scanHistory' = AppendTrim(scanHistory,
                          [UID |-> call[p].arg, Time |-> call[p].eventTime])
    /\ scanLog' = Append(scanLog,
                          [UID |-> call[p].arg, Time |-> call[p].eventTime])
    /\ call' = [call EXCEPT ![p].pc = "scan_lookup", ![p].eventTime = NoTime]
    /\ UNCHANGED <<main, lastSaved, now, members, userDB, currentAttendees, sessions, snapFile,
                   mu, sweeper, closures, sessionBy>>

\* member, exists := userDB[req.UID]; 403 when unknown
handleScanLookup(p) ==
    /\ call[p].pc = "scan_lookup"
    /\ mu = "free"
    /\ IF UserExists(userDB, call[p].arg)
       THEN call' = [call EXCEPT ![p].pc = "scan_check",
                                 ![p].member = UserOf(userDB, call[p].arg)]
       ELSE call' = [call EXCEPT ![p].pc = "done", ![p].resp = "403"]
    /\ UNCHANGED <<main, lastSaved, now, members, userDB, currentAttendees, scanHistory, scanLog,
                   sessions, snapFile, mu, sweeper, closures, sessionBy>>

\* signInTime, isInside := currentAttendees[req.UID], under RLock
handleScanCheck(p) ==
    /\ call[p].pc = "scan_check"
    /\ mu = "free"
    /\ IF call[p].arg \in DOMAIN currentAttendees
       THEN call' = [call EXCEPT ![p].pc = "so_delete",
                                 ![p].signInTime = currentAttendees[call[p].arg]]
       ELSE call' = [call EXCEPT ![p].pc = "si_put"]
    /\ UNCHANGED <<main, lastSaved, now, members, userDB, currentAttendees, scanHistory, scanLog,
                   sessions, snapFile, mu, sweeper, closures, sessionBy>>

\* ---- performSignIn ----
\* mu.Lock(); currentAttendees[member.UID] = time.Now(); mu.Unlock()
performSignIn(p) ==
    /\ call[p].pc = "si_put"
    /\ mu = "free"
    /\ currentAttendees' = MapPut(currentAttendees, call[p].member.UID, now)
    /\ call' = [call EXCEPT ![p].pc = "save_copy", ![p].ret = "in",
                            ![p].at = now]
    /\ UNCHANGED <<main, lastSaved, now, members, userDB, scanHistory, scanLog, sessions, snapFile, mu,
                   sweeper, closures, sessionBy>>

\* ---- performSignOut ----
\* mu.Lock(); delete(currentAttendees, member.UID); mu.Unlock()
performSignOutDelete(p) ==
    LET uid == call[p].member.UID IN
    /\ call[p].pc = "so_delete"
    /\ mu = "free"
    /\ currentAttendees' = MapDelete(currentAttendees, uid)
    /\ closures' = IF uid \in DOMAIN currentAttendees
                   THEN BagAddSet(closures, {<<uid, currentAttendees[uid]>>})
                   ELSE closures
    /\ call' = [call EXCEPT ![p].pc = "so_append"]
    /\ UNCHANGED <<main, lastSaved, now, members, userDB, scanHistory, scanLog, sessions, snapFile, mu,
                   sweeper, sessionBy>>

\* signOutTime := time.Now(); saveSessionToDB(...); an error is returned
performSignOutAppend(p) ==
    /\ call[p].pc = "so_append"
    /\ \/ /\ saveSessionToDB(call[p].member.ID, call[p].signInTime, now,
                              p, call[p].member.UID)
          /\ call' = [call EXCEPT ![p].pc = "save_copy", ![p].ret = "out",
                                  ![p].at = now, ![p].signInTime = NoTime]
       \/ /\ saveSessionFails
          /\ call' = [call EXCEPT ![p].pc = "done", ![p].resp = "500",
                                  ![p].at = now, ![p].signInTime = NoTime,
                                  ![p].appendErrs = @ + 1]
    /\ UNCHANGED <<main, lastSaved, now, members, userDB, currentAttendees, scanHistory, scanLog,
                   snapFile, mu, sweeper, closures>>

\* ---- saveCurrentAttendees ----
\* the copy under RLock
saveCurrentAttendeesCopy(p) ==
    /\ call[p].pc = "save_copy"
    /\ mu = "free"
    /\ call' = [call EXCEPT ![p].pc = "save_write",
                            ![p].copyMap = currentAttendees]
    /\ UNCHANGED <<main, lastSaved, now, members, userDB, currentAttendees, scanHistory, scanLog,
                   sessions, snapFile, mu, sweeper, closures, sessionBy>>

\* where the caller of saveCurrentAttendees goes on: performSignIn and
\* performSignOut return the error (500) or the message; handleSignoutAll
\* drops the error and goes on to its rows
AfterSave(c, ok) ==
    IF c.ret = "all"
    THEN IF DOMAIN c.toSignOut = {}
         THEN [c EXCEPT !.pc = "done", !.resp = "all", !.copyMap = EmptyMap,
                        !.writeErr = ~ok]
         ELSE [c EXCEPT !.pc = "all_rows", !.copyMap = EmptyMap,
                        !.writeErr = ~ok]
    ELSE [c EXCEPT !.pc = "done", !.resp = IF ok THEN c.ret ELSE "500",
                   !.copyMap = EmptyMap, !.writeErr = ~ok]

\* os.WriteFile(currentAttendeesFilePath, data, 0644)
saveCurrentAttendeesWrite(p) ==
    /\ call[p].pc = "save_write"
    /\ \/ /\ snapFile' = FileOf(call[p].copyMap)
          /\ lastSaved' = call[p].copyMap
          /\ call' = [call EXCEPT ![p] = AfterSave(call[p], TRUE)]
       \/ /\ UNCHANGED <<snapFile, lastSaved>>
          /\ call' = [call EXCEPT ![p] = AfterSave(call[p], FALSE)]
    /\ UNCHANGED <<main, now, members, userDB, currentAttendees, scanHistory, scanLog,
                   sessions, mu, sweeper, closures, sessionBy>>

\* ---- handleSignInWithDiscordID / handleSignOutWithDiscordID ----
\* the loop over userDB under RLock; 404 when no member has the id
findByDiscordID(p) ==
    /\ call[p].pc \in {"in_find", "out_find"}
    /\ mu = "free"
    /\ LET ms == MembersByDiscord(userDB, call[p].arg) IN
       IF ms = {}
       THEN call' = [call EXCEPT ![p].pc = "done", ![p].resp = "404"]
       ELSE \E m \in ms :
              call' = [call EXCEPT ![p].member = m,
                         ![p].pc = IF call[p].pc = "in_find"
                                   THEN "in_check" ELSE "out_check"]
    /\ UNCHANGED <<main, lastSaved, now, members, userDB, currentAttendees, scanHistory, scanLog,
                   sessions, snapFile, mu, sweeper, closures, sessionBy>>

\* the same without the isInside test
handleSignInCheck_Blind(p) ==
    /\ call[p].pc = "in_check"
    /\ mu = "free"
    /\ call' = [call EXCEPT ![p].pc = "si_put"]
    /\ UNCHANGED <<main, lastSaved, now, members, userDB, currentAttendees,
                   scanHistory, scanLog, sessions, snapFile, mu, sweeper, closures,
                   sessionBy>>

\* mu.Lock(); if isInside { mu.Unlock(); 409 }; mu.Unlock(); performSignIn
handleSignInCheck(p) ==
    /\ call[p].pc = "in_check"
    /\ mu = "free"
    /\ IF call[p].member.UID \in DOMAIN currentAttendees
       THEN call' = [call EXCEPT ![p].pc = "done", ![p].resp = "409"]
       ELSE call' = [call EXCEPT ![p].pc = "si_put"]
    /\ UNCHANGED <<main, lastSaved, now, members, userDB, currentAttendees, scanHistory, scanLog,
                   sessions, snapFile, mu, sweeper, closures, sessionBy>>

\* mu.Lock(); signInTime, isInside := ...; if !isInside { 409 };
\* mu.Unlock(); performSignOut
handleSignOutCheck(p) ==
    /\ call[p].pc = "out_check"
    /\ mu = "free"
    /\ IF call[p].member.UID \in DOMAIN currentAttendees
       THEN call' = [call EXCEPT ![p].pc = "so_delete",
                       ![p].signInTime = currentAttendees[call[p].member.UID]]
       ELSE call' = [call EXCEPT ![p].pc = "done", ![p].resp = "409"]
    /\ UNCHANGED <<main, lastSaved, now, members, userDB, currentAttendees, scanHistory, scanLog,
                   sessions, snapFile, mu, sweeper, closures, sessionBy>>

\* ---- handleSignoutAll ----
\* mu.Lock(); count, toSignOut := copy; currentAttendees = make(...);
\* mu.Unlock(); then saveCurrentAttendees
handleSignoutAllClear(p) ==
    /\ call[p].pc = "all_clear"
    /\ mu = "free"
    /\ currentAttendees' = ClearedMap(currentAttendees)
    /\ closures' = BagAddSet(closures, Intervals(currentAttendees))
    /\ call' = [call EXCEPT ![p].pc = "save_copy", ![p].ret = "all",
                            ![p].count = MapLen(currentAttendees),
                            ![p].toSignOut = currentAttendees]
    /\ UNCHANGED <<main, lastSaved, now, members, userDB, scanHistory, scanLog, sessions, snapFile, mu,
                   sweeper, sessionBy>>

\* one turn of: for uid, signinTime := range toSignOut {
\*     signOutTime := time.Now(); saveSessionToDB(userDB[uid].ID, ...) }
\* an error is logged and the loop goes on
handleSignoutAllRow(p) ==
    /\ call[p].pc = "all_rows"
    /\ \E uid \in DOMAIN call[p].toSignOut :
         LET rest == StillToDo(call[p].toSignOut, uid) IN
         \E ok \in BOOLEAN :
         /\ IF ok
            THEN saveSessionToDB(UserOf(userDB, uid).ID, call[p].toSignOut[uid],
                                 now, p, uid)
            ELSE saveSessionFails
         /\ call' = [call EXCEPT ![p].toSignOut = rest,
                        ![p].pc = IF DOMAIN rest = {} THEN "done" ELSE "all_rows",
                        ![p].resp = IF DOMAIN rest = {} THEN "all" ELSE "none",
                        ![p].appendErrs = IF ok THEN @ ELSE @ + 1,
                        ![p].logged = IF ok THEN @ ELSE @ + 1]
    /\ UNCHANGED <<main, lastSaved, now, members, userDB, currentAttendees, scanHistory, scanLog,
                   snapFile, mu, sweeper, closures>>

\* ---- handleCurrent ----
\* one element of activeList (the member's name is stood for by the uid)
ActiveAttendee(uid, t) == [Name |-> uid, SignInTime |-> t]

\* the orders in which a range loop can visit the keys of a map
Perms(S) ==
    {f \in [1..Cardinality(S) -> S] : \A x \in S : \E i \in DOMAIN f : f[i] = x}

RangeOrders(m) ==
    {[i \in DOMAIN f |-> ActiveAttendee(f[i], m[f[i]])] : f \in Perms(DOMAIN m)}

\* the part of map m on the keys in S
Restrict(m, S) == [u \in DOMAIN m \cap S |-> m[u]]

\* the range loop split over two read-lock sections: the entry of "U1" in
\* the first, the other entries in the second
handleCurrentCopy_TwoSections(p) ==
    /\ call[p].pc = "cur_copy"
    /\ mu = "free"
    /\ IF call[p].count = 0
       THEN \E l \in RangeOrders(Restrict(currentAttendees, {"U1"})) :
               call' = [call EXCEPT ![p].count = 1, ![p].activeList = l,
                                    ![p].seen = currentAttendees]
       ELSE \E l \in RangeOrders(Restrict(currentAttendees,
                                          DOMAIN currentAttendees \ {"U1"})) :
               call' = [call EXCEPT ![p].pc = "cur_sort",
                                    ![p].activeList = call[p].activeList \o l]
    /\ UNCHANGED <<main, lastSaved, now, members, userDB, currentAttendees,
                   scanHistory, scanLog, sessions, snapFile, mu, sweeper, closures,
                   sessionBy>>

\* mu.RLock(); for uid, signinTime := range currentAttendees { append };
\* mu.RUnlock()
handleCurrentCopy(p) ==
    /\ call[p].pc = "cur_copy"
    /\ mu = "free"
    /\ \E l \in RangeOrders(currentAttendees) :
          call' = [call EXCEPT ![p].pc = "cur_sort", ![p].activeList = l,
                               ![p].seen = currentAttendees]
    /\ UNCHANGED <<main, lastSaved, now, members, userDB, currentAttendees,
                   scanHistory, scanLog, sessions, snapFile, mu, sweeper, closures,
                   sessionBy>>

\* sort.Slice(activeList, less) with less = SignInTime.Before; for a slice
\* of fewer than 12 elements the library sorts by insertion
RECURSIVE InsertByTime(_, _)
InsertByTime(l, e) ==
    IF l = <<>> THEN <<e>>
    ELSE IF e.SignInTime < Head(l).SignInTime
         THEN <<e>> \o l
         ELSE <<Head(l)>> \o InsertByTime(Tail(l), e)

SortSlice_Skipped(l) == l

RECURSIVE SortSlice(_)
SortSlice(l) ==
    IF l = <<>> THEN <<>> ELSE InsertByTime(SortSlice(Tail(l)), Head(l))

\* the sort and json.NewEncoder(w).Encode(activeList)
handleCurrentSort(p) ==
    /\ call[p].pc = "cur_sort"
    /\ call' = [call EXCEPT ![p].pc = "done", ![p].resp = "list",
                            ![p].activeList = SortSlice(call[p].activeList)]
    /\ UNCHANGED <<main, lastSaved, now, members, userDB, currentAttendees,
                   scanHistory, scanLog, sessions, snapFile, mu, sweeper, closures,
                   sessionBy>>

\* ---- handleScanHistory ----
\* mu.RLock(); history := make(...); copy(history, scanHistory); mu.RUnlock()
handleScanHistoryCopy(p) ==
    /\ call[p].pc = "hist_copy"
    /\ mu = "free"
    /\ call' = [call EXCEPT ![p].pc = "hist_reverse",
                            ![p].history = scanHistory,
                            ![p].count = Len(scanLog)]
    /\ UNCHANGED <<main, lastSaved, now, members, userDB, currentAttendees,
                   scanHistory, scanLog, sessions, snapFile, mu, sweeper,
                   closures, sessionBy>>

\* for i, j := 0, len(history)-1; i < j; i, j = i+1, j-1 { swap }
Reverse(l) == [i \in 1..Len(l) |-> l[Len(l) + 1 - i]]

\* the swaps on the copy, and json.NewEncoder(w).Encode(history)
handleScanHistoryReverse(p) ==
    /\ call[p].pc = "hist_reverse"
    /\ call' = [call EXCEPT ![p].pc = "done", ![p].resp = "history",
                            ![p].history = Reverse(call[p].history)]
    /\ UNCHANGED <<main, lastSaved, now, members, userDB, currentAttendees,
                   scanHistory, scanLog, sessions, snapFile, mu, sweeper,
                   closures, sessionBy>>

\* ---- handleCount ----
\* mu.RLock(); count := len(currentAttendees); mu.RUnlock(); the encoding
\* of {"count": count}
handleCount(p) ==
    /\ call[p].pc = "cnt_len"
    /\ mu = "free"
    /\ call' = [call EXCEPT ![p].pc = "done", ![p].resp = "count",
                            ![p].count = MapLen(currentAttendees),
                            ![p].seen = currentAttendees]
    /\ UNCHANGED <<main, lastSaved, now, members, userDB, currentAttendees,
                   scanHistory, scanLog, sessions, snapFile, mu, sweeper, closures,
                   sessionBy>>

\* ---- handleMember, DELETE /members/{id} ----
\* the ids a request can name: the members' and one that has no row
MemberIDs == {m.ID : m \in InitMembers} \cup {NoMember.ID}

StartDelete(p, id) ==
    /\ main.pc = "serving"
    /\ call[p].pc = "init"
    /\ \A q \in Procs : q < p => call[q].pc # "init"
    /\ call' = [call EXCEPT ![p] =
                  [IdleCall EXCEPT
                     !.pc = "del_query", !.op = "delete", !.id = id,
                     !.prior = {q \in Procs : Done(q)},
                     !.preIn = \E m \in members :
                                  m.ID = id /\ m.UID \in DOMAIN currentAttendees]]
    /\ UNCHANGED <<main, lastSaved, now, members, userDB, currentAttendees,
                   scanHistory, scanLog, sessions, snapFile, mu, sweeper, closures,
                   sessionBy>>

\* WHERE id = ? (id is the primary key)
RowsByID(rows, id) == {m \in rows : m.ID = id}

\* SELECT uid FROM members WHERE id = ?; 404 on sql.ErrNoRows, 500 on an error
handleMemberQuery(p) ==
    /\ call[p].pc = "del_query"
    /\ \/ \E m \in RowsByID(members, call[p].id) :
            call' = [call EXCEPT ![p].pc = "del_check", ![p].member = m]
       \/ /\ RowsByID(members, call[p].id) = {}
          /\ call' = [call EXCEPT ![p].pc = "done", ![p].resp = "404"]
       \/ call' = [call EXCEPT ![p].pc = "done", ![p].resp = "500"]
    /\ UNCHANGED <<main, lastSaved, now, members, userDB, currentAttendees,
                   scanHistory, scanLog, sessions, snapFile, mu, sweeper, closures,
                   sessionBy>>

\* _, isSignedIn := currentAttendees[uid]
IsSignedIn_Never(m, uid) == FALSE

IsSignedIn(m, uid) == uid \in DOMAIN m

\* mu.RLock(); isSignedIn; mu.RUnlock(); 409 when signed in
handleMemberCheck(p) ==
    /\ call[p].pc = "del_check"
    /\ mu = "free"
    /\ IF IsSignedIn(currentAttendees, call[p].member.UID)
       THEN call' = [call EXCEPT ![p].pc = "done", ![p].resp = "409"]
       ELSE call' = [call EXCEPT ![p].pc = "del_exec"]
    /\ UNCHANGED <<main, lastSaved, now, members, userDB, currentAttendees,
                   scanHistory, scanLog, sessions, snapFile, mu, sweeper, closures,
                   sessionBy>>

\* FOREIGN KEY(member_id) REFERENCES members(id) ON DELETE CASCADE
CascadeDelete_None(ss, id) == ss

CascadeDelete(ss, id) == SelectSeq(ss, LAMBDA r : r.member_id # id)

\* the positions of the rows that stay, and the entries of s at positions idx
Kept(ss, id) == {i \in DOMAIN ss : ss[i].member_id # id}

RECURSIVE Pick(_, _)
Pick(s, idx) ==
    IF s = <<>> THEN <<>>
    ELSE LET n == Len(s)
             front == Pick(SubSeq(s, 1, n - 1), idx)
         IN  IF n \in idx THEN Append(front, s[n]) ELSE front

\* DELETE FROM members WHERE id = ?; 500 on an error, 404 when no row went
handleMemberDelete(p) ==
    LET id == call[p].id IN
    /\ call[p].pc = "del_exec"
    /\ \/ /\ RowsByID(members, id) # {}
          /\ members' = members \ RowsByID(members, id)
          /\ sessions' = CascadeDelete(sessions, id)
          /\ sessionBy' = Pick(sessionBy, Kept(sessions, id))
          /\ call' = [call EXCEPT ![p].pc = "reload_query",
                         ![p].cascaded = Len(sessions)
                                           - Cardinality(Kept(sessions, id))]
       \/ /\ RowsByID(members, id) = {}
          /\ call' = [call EXCEPT ![p].pc = "done", ![p].resp = "404"]
          /\ UNCHANGED <<members, sessions, sessionBy>>
       \/ /\ call' = [call EXCEPT ![p].pc = "done", ![p].resp = "500"]
          /\ UNCHANGED <<members, sessions, sessionBy>>
    /\ UNCHANGED <<main, lastSaved, now, userDB, currentAttendees,
                   scanHistory, scanLog, snapFile, mu, sweeper, closures>>

\* ---- handleMembers, POST /members, and handleMember, PUT /members/{id} ----
\* uid and discord_id of a request body, after strings.TrimSpace
NewUIDs == {"U1", "U3", ""}

NewDiscordIDs == {"D3"}

CreateRequest(p, uid, discord) ==
    /\ main.pc = "serving"
    /\ call[p].pc = "init"
    /\ \A q \in Procs : q < p => call[q].pc # "init"
    /\ call' = [call EXCEPT ![p] =
                  [IdleCall EXCEPT
                     !.pc = "create_exec", !.op = "create",
                     !.member = [ID |-> NoMember.ID, UID |-> uid,
                                 DiscordID |-> discord],
                     !.prior = {q \in Procs : Done(q)}]]
    /\ UNCHANGED <<main, lastSaved, now, members, userDB, currentAttendees,
                   scanHistory, scanLog, sessions, snapFile, mu, sweeper,
                   closures, sessionBy>>

UpdateRequest(p, id, uid, discord) ==
    /\ main.pc = "serving"
    /\ call[p].pc = "init"
    /\ \A q \in Procs : q < p => call[q].pc # "init"
    /\ call' = [call EXCEPT ![p] =
                  [IdleCall EXCEPT
                     !.pc = "update_exec", !.op = "update", !.id = id,
                     !.member = [ID |-> id, UID |-> uid, DiscordID |-> discord],
                     !.prior = {q \in Procs : Done(q)}]]
    /\ UNCHANGED <<main, lastSaved, now, members, userDB, currentAttendees,
                   scanHistory, scanLog, sessions, snapFile, mu, sweeper,
                   closures, sessionBy>>

\* a table without the UNIQUE index on uid
UIDTaken_Never(rows, uid, id) == FALSE

\* uid TEXT NOT NULL UNIQUE: a row other than row id holds the uid
UIDTaken(rows, uid, id) == \E m \in rows : m.UID = uid /\ m.ID # id

\* id INTEGER PRIMARY KEY AUTOINCREMENT: one more than the largest id used
\* (the requests of one run never delete the row with the largest id and
\* insert afterwards)
LastInsertId(rows) ==
    LET used == {m.ID : m \in rows \cup InitMembers}
    IN  1 + CHOOSE n \in used : \A k \in used : k <= n

\* the answer of a handler that changed the members table
Served(c) ==
    CASE c.op = "delete" -> "deleted"
      [] c.op = "create" -> "201"
      [] OTHER -> "200"

\* 400 when a field is empty; INSERT INTO members: 409 on the UNIQUE
\* error, 500 on another error; then loadMembersIntoCache()
handleMembersInsert(p) ==
    LET req == call[p].member IN
    /\ call[p].pc = "create_exec"
    /\ \/ /\ req.UID = "" \/ req.DiscordID = ""
          /\ call' = [call EXCEPT ![p].pc = "done", ![p].resp = "400"]
          /\ UNCHANGED members
       \/ /\ req.UID # "" /\ req.DiscordID # ""
          /\ UIDTaken(members, req.UID, NoMember.ID)
          /\ call' = [call EXCEPT ![p].pc = "done", ![p].resp = "409"]
          /\ UNCHANGED members
       \/ /\ req.UID # "" /\ req.DiscordID # ""
          /\ ~UIDTaken(members, req.UID, NoMember.ID)
          /\ members' = members \cup
                           {[req EXCEPT !.ID = LastInsertId(members)]}
          /\ call' = [call EXCEPT ![p].pc = "reload_query",
                                  ![p].id = LastInsertId(members)]
       \/ /\ req.UID # "" /\ req.DiscordID # ""
          /\ call' = [call EXCEPT ![p].pc = "done", ![p].resp = "500"]
          /\ UNCHANGED members
    /\ UNCHANGED <<main, lastSaved, now, userDB, currentAttendees,
                   scanHistory, scanLog, sessions, snapFile, mu, sweeper,
                   closures, sessionBy>>

\* 400 when a field is empty; UPDATE members SET ... WHERE id = ?: 409 on
\* the UNIQUE error, 500 on another error, 404 when no row was affected;
\* then loadMembersIntoCache()
handleMemberUpdate(p) ==
    LET req == call[p].member
        row == RowsByID(members, call[p].id)
    IN
    /\ call[p].pc = "update_exec"
    /\ \/ /\ req.UID = "" \/ req.DiscordID = ""
          /\ call' = [call EXCEPT ![p].pc = "done", ![p].resp = "400"]
          /\ UNCHANGED members
       \/ /\ req.UID # "" /\ req.DiscordID # ""
          /\ row # {} /\ UIDTaken(members, req.UID, call[p].id)
          /\ call' = [call EXCEPT ![p].pc = "done", ![p].resp = "409"]
          /\ UNCHANGED members
       \/ /\ req.UID # "" /\ req.DiscordID # ""
          /\ row # {} /\ ~UIDTaken(members, req.UID, call[p].id)
          /\ members' = (members \ row) \cup {req}
          /\ call' = [call EXCEPT ![p].pc = "reload_query"]
       \/ /\ req.UID # "" /\ req.DiscordID # ""
          /\ row = {}
          /\ call' = [call EXCEPT ![p].pc = "done", ![p].resp = "404"]
          /\ UNCHANGED members
       \/ /\ req.UID # "" /\ req.DiscordID # ""
          /\ call' = [call EXCEPT ![p].pc = "done", ![p].resp = "500"]
          /\ UNCHANGED members
    /\ UNCHANGED <<main, lastSaved, now, userDB, currentAttendees,
                   scanHistory, scanLog, sessions, snapFile, mu, sweeper,
                   closures, sessionBy>>

\* ---- loadMembersIntoCache, after a change of the members table ----
\* SELECT id, name, uid, discord_id FROM members into cache; an error is
\* logged by the handler, which answers as if the cache were reloaded
loadMembersIntoCacheQuery(p) ==
    /\ call[p].pc = "reload_query"
    /\ \/ call' = [call EXCEPT ![p].pc = "reload_assign",
                                ![p].cache = CacheOf(members)]
       \/ call' = [call EXCEPT ![p].pc = "done", ![p].resp = Served(call[p]),
                                ![p].reloadErr = TRUE]
    /\ UNCHANGED <<main, lastSaved, now, members, userDB, currentAttendees,
                   scanHistory, scanLog, sessions, snapFile, mu, sweeper, closures,
                   sessionBy>>

\* mu.Lock(); userDB = cache; mu.Unlock()
loadMembersIntoCacheAssign(p) ==
    /\ call[p].pc = "reload_assign"
    /\ mu = "free"
    /\ userDB' = call[p].cache
    /\ call' = [call EXCEPT ![p].pc = "done", ![p].resp = Served(call[p]),
                            ![p].cache = EmptyMap]
    /\ UNCHANGED <<main, lastSaved, now, members, currentAttendees,
                   scanHistory, scanLog, sessions, snapFile, mu, sweeper, closures,
                   sessionBy>>

\* ---- startNightlyCleanup ----
\* now := time.Now(); next := today 04:00; if next.Before(now) { next += 24h }
\* After a wake-up time.Now() is later than the instant just waited for, so
\* on the tick clock a candidate equal to that instant counts as passed.
NextFourAM(t, woke) ==
    IF TodayFourAM(t) < t \/ TodayFourAM(t) <= woke
    THEN TodayFourAM(t) + DayTicks
    ELSE TodayFourAM(t)

cleanupCompute ==
    /\ main.pc = "serving"
    /\ sweeper.pc = "idle"
    /\ sweeper' = [sweeper EXCEPT !.pc = "waiting",
                                  !.next = NextFourAM(now, sweeper.next)]
    /\ UNCHANGED <<main, lastSaved, now, members, userDB, currentAttendees, scanHistory, scanLog,
                   sessions, snapFile, mu, call, closures, sessionBy>>

\* <-timer.C, then mu.Lock()
cleanupLock ==
    /\ sweeper.pc = "waiting"
    /\ now >= sweeper.next
    /\ mu = "free"
    /\ mu' = "sweeper"
    /\ sweeper' = [sweeper EXCEPT !.pc = "locked", !.sweeps = @ + 1]
    /\ UNCHANGED <<main, lastSaved, now, members, userDB, currentAttendees, scanHistory, scanLog,
                   sessions, snapFile, call, closures, sessionBy>>

\* a cleanup that unlocks only after its rows are written
cleanupClear_RowsUnderLock ==
    /\ sweeper.pc = "locked"
    /\ IF MapLen(currentAttendees) > 0
       THEN /\ currentAttendees' = ClearedMap(currentAttendees)
            /\ closures' = BagAddSet(closures, Intervals(currentAttendees))
            /\ sweeper' = [sweeper EXCEPT !.pc = "rows",
                              !.cnt = MapLen(currentAttendees),
                              !.toSignOut = currentAttendees]
       ELSE /\ sweeper' = [sweeper EXCEPT !.pc = "idle", !.cnt = 0]
            /\ UNCHANGED <<currentAttendees, closures>>
    /\ UNCHANGED <<main, lastSaved, now, members, userDB, scanHistory, scanLog,
                   sessions, snapFile, mu, call, sessionBy>>

\* cnt := len(currentAttendees); if cnt > 0 { swap; mu.Unlock(); rows }
\* with cnt == 0 the loop starts over and mu stays locked
cleanupClear ==
    /\ sweeper.pc = "locked"
    /\ IF MapLen(currentAttendees) > 0
       THEN /\ currentAttendees' = ClearedMap(currentAttendees)
            /\ closures' = BagAddSet(closures, Intervals(currentAttendees))
            /\ mu' = "free"
            /\ sweeper' = [sweeper EXCEPT !.pc = "rows",
                              !.cnt = MapLen(currentAttendees),
                              !.toSignOut = currentAttendees]
       ELSE /\ sweeper' = [sweeper EXCEPT !.pc = "idle", !.cnt = 0]
            /\ UNCHANGED <<currentAttendees, closures, mu>>
    /\ UNCHANGED <<main, lastSaved, now, members, userDB, scanHistory, scanLog, sessions, snapFile,
                   call, sessionBy>>

\* one turn of: for uid, signin := range toSignOut {
\*     saveSessionToDB(userDB[uid].ID, signin, time.Now()) }, error dropped
cleanupRow ==
    /\ sweeper.pc = "rows"
    /\ \E uid \in DOMAIN sweeper.toSignOut :
         LET rest == StillToDo(sweeper.toSignOut, uid) IN
         \E ok \in BOOLEAN :
         /\ IF ok
            THEN saveSessionToDB(UserOf(userDB, uid).ID, sweeper.toSignOut[uid],
                                 now, CleanupWriter(sweeper.sweeps), uid)
            ELSE saveSessionFails
         /\ sweeper' = [sweeper EXCEPT !.toSignOut = rest,
                           !.pc = IF DOMAIN rest = {} THEN "idle" ELSE "rows",
                           !.appendErrs = IF ok THEN @ ELSE @ + 1]
    /\ UNCHANGED <<main, lastSaved, now, members, userDB, currentAttendees, scanHistory, scanLog,
                   snapFile, mu, call, closures>>

\* ---- main: start of the process ----
\* loadCurrentAttendees: a missing file is no error; a file that cannot be
\* read or is not JSON returns the error; else currentAttendees = loaded
loadCurrentAttendees ==
    /\ main.pc = "load"
    /\ mu = "free"
    /\ \/ /\ snapFile.kind = "missing"
          /\ main' = [main EXCEPT !.pc = "loaded", !.loaded = "missing"]
          /\ UNCHANGED currentAttendees
       \/ /\ snapFile.kind = "malformed"
          /\ main' = [main EXCEPT !.pc = "loaded", !.loaded = "malformed"]
          /\ UNCHANGED currentAttendees
       \/ /\ snapFile.kind = "json"
          /\ main' = [main EXCEPT !.pc = "loaded", !.loaded = "json"]
          /\ currentAttendees' = Unmarshal(snapFile.entries)
       \/ /\ snapFile.kind # "missing"
          /\ main' = [main EXCEPT !.pc = "loaded", !.loaded = "unreadable"]
          /\ UNCHANGED currentAttendees
    /\ UNCHANGED <<lastSaved, now, members, userDB, scanHistory, scanLog, sessions,
                   snapFile, mu, call, sweeper, closures, sessionBy>>

\* the rest of main: the error of the load is logged as a warning, the
\* routes are set, go startNightlyCleanup(), http.ListenAndServe
mainListen ==
    /\ main.pc = "loaded"
    /\ main' = [main EXCEPT !.pc = "serving"]
    /\ UNCHANGED <<lastSaved, now, members, userDB, currentAttendees,
                   scanHistory, scanLog, sessions, snapFile, mu, call, sweeper,
                   closures, sessionBy>>

\* a request cut off by the end of the process
Killed(c) ==
    IF c.pc \in {"init", "done"} THEN c
    ELSE [IdleCall EXCEPT !.pc = "done", !.op = c.op, !.arg = c.arg,
                          !.id = c.id, !.resp = "killed", !.prior = c.prior,
                          !.preIn = c.preIn]

\* the process is killed and started again: the database and the snapshot
\* file stay, the globals start over and main runs up to the load
Crash ==
    /\ main.pc = "serving"
    /\ main.boots < MaxRestarts
    /\ main' = [pc |-> "load", loaded |-> "none", boots |-> main.boots + 1,
                keys |-> main.keys]
    /\ currentAttendees' = EmptyMap
    /\ userDB' = CacheOf(members)
    /\ scanHistory' = <<>>
    /\ scanLog' = <<>>
    /\ mu' = "free"
    /\ call' = [p \in Procs |-> Killed(call[p])]
    /\ sweeper' = [IdleSweeper EXCEPT !.sweeps = sweeper.sweeps,
                       !.cut = sweeper.cut \/ sweeper.pc \in {"locked", "rows"}]
    /\ UNCHANGED <<lastSaved, now, members, sessions, snapFile, closures,
                   sessionBy>>

\* ---- the system ----
ScanRequest(p) == \E uid \in ScanUIDs : Start(p, "scan", uid)

SignInRequest(p) == \E id \in DiscordIDs : Start(p, "signin", id)

SignOutRequest(p) == \E id \in DiscordIDs : Start(p, "signout", id)

SignoutAllRequest(p) == Start(p, "all", "")

\* the steps of handleScan, performSignIn, performSignOut, saveCurrentAttendees
ScanStep(p) ==
    \/ recordScanEvent(p)
    \/ handleScanLookup(p)
    \/ handleScanCheck(p)

EngineStep(p) ==
    \/ performSignIn(p)
    \/ performSignOutDelete(p)
    \/ performSignOutAppend(p)
    \/ saveCurrentAttendeesCopy(p)
    \/ saveCurrentAttendeesWrite(p)

DiscordStep(p) ==
    \/ findByDiscordID(p)
    \/ handleSignInCheck(p)
    \/ handleSignOutCheck(p)

SignoutAllStep(p) ==
    \/ handleSignoutAllClear(p)
    \/ handleSignoutAllRow(p)

DeleteRequest(p) == \E id \in MemberIDs : StartDelete(p, id)

CurrentRequest(p) == Start(p, "current", "")

CountRequest(p) == Start(p, "count", "")

CurrentStep(p) ==
    \/ handleCurrentCopy(p)
    \/ handleCurrentSort(p)

MemberStep(p) ==
    \/ handleMemberQuery(p)
    \/ handleMemberCheck(p)
    \/ handleMemberDelete(p)
    \/ loadMembersIntoCacheQuery(p)
    \/ loadMembersIntoCacheAssign(p)

CleanupStep ==
    \/ cleanupCompute
    \/ cleanupLock
    \/ cleanupClear
    \/ cleanupRow

\* every handler and the cleanup goroutine
Next ==
    \/ Tick
    \/ \E p \in Procs : ScanRequest(p)
    \/ \E p \in Procs : SignInRequest(p)
    \/ \E p \in Procs : SignOutRequest(p)
    \/ \E p \in Procs : SignoutAllRequest(p)
    \/ \E p \in Procs : ScanStep(p)
    \/ \E p \in Procs : EngineStep(p)
    \/ \E p \in Procs : DiscordStep(p)
    \/ \E p \in Procs : SignoutAllStep(p)
    \/ \E p \in Procs : DeleteRequest(p)
    \/ \E p \in Procs : MemberStep(p)
    \/ \E p \in Procs : CurrentRequest(p)
    \/ \E p \in Procs : CurrentStep(p)
    \/ \E p \in Procs : CountRequest(p)
    \/ \E p \in Procs : handleCount(p)
    \/ \E p \in Procs : Start(p, "scanhist", "")
    \/ \E p \in Procs : handleScanHistoryCopy(p)
    \/ \E p \in Procs : handleScanHistoryReverse(p)
    \/ \E p \in Procs, uid \in NewUIDs, d \in NewDiscordIDs :
          CreateRequest(p, uid, d)
    \/ \E p \in Procs, id \in MemberIDs, uid \in NewUIDs, d \in NewDiscordIDs :
          UpdateRequest(p, id, uid, d)
    \/ \E p \in Procs : handleMembersInsert(p)
    \/ \E p \in Procs : handleMemberUpdate(p)
    \/ CleanupStep
    \/ Crash
    \/ loadCurrentAttendees
    \/ mainListen

Spec == Init /\ [][Next]_vars

\* ---- parts of the system, one per family of properties ----
\* scans only (POST /scan from the reader), the clock running
NextToggle ==
    \/ Tick
    \/ \E p \in Procs : ScanRequest(p)
    \/ \E p \in Procs : ScanStep(p)
    \/ \E p \in Procs : EngineStep(p)

SpecToggle == Init /\ [][NextToggle]_vars

\* a burst of scans served within one clock tick
NextBurst ==
    \/ \E p \in Procs : ScanRequest(p)
    \/ \E p \in Procs : ScanStep(p)
    \/ \E p \in Procs : EngineStep(p)

SpecBurst == Init /\ [][NextBurst]_vars

\* requests served one after the other, before the first 04:00
Quiet == \A q \in Procs : call[q].pc \in {"init", "done"}

NextSeq ==
    \/ Tick
    \/ \E p \in Procs : Quiet /\ ScanRequest(p)
    \/ \E p \in Procs : Quiet /\ SignInRequest(p)
    \/ \E p \in Procs : Quiet /\ SignOutRequest(p)
    \/ \E p \in Procs : Quiet /\ SignoutAllRequest(p)
    \/ \E p \in Procs : ScanStep(p)
    \/ \E p \in Procs : EngineStep(p)
    \/ \E p \in Procs : DiscordStep(p)
    \/ \E p \in Procs : SignoutAllStep(p)

SpecSeq == Init /\ [][NextSeq]_vars

\* scans and the Discord sign-in / sign-out requests
NextDiscord ==
    \/ Tick
    \/ \E p \in Procs : ScanRequest(p)
    \/ \E p \in Procs : SignInRequest(p)
    \/ \E p \in Procs : SignOutRequest(p)
    \/ \E p \in Procs : ScanStep(p)
    \/ \E p \in Procs : EngineStep(p)
    \/ \E p \in Procs : DiscordStep(p)

SpecDiscord == Init /\ [][NextDiscord]_vars

\* the two force-sign-out paths against scans
NextSweep ==
    \/ Tick
    \/ \E p \in Procs : ScanRequest(p)
    \/ \E p \in Procs : SignoutAllRequest(p)
    \/ \E p \in Procs : ScanStep(p)
    \/ \E p \in Procs : EngineStep(p)
    \/ \E p \in Procs : SignoutAllStep(p)
    \/ CleanupStep

SpecSweep == Init /\ [][NextSweep]_vars

\* the two force-sign-out paths on their own
NextForce ==
    \/ Tick
    \/ \E p \in Procs : SignoutAllRequest(p)
    \/ \E p \in Procs : saveCurrentAttendeesCopy(p)
    \/ \E p \in Procs : saveCurrentAttendeesWrite(p)
    \/ \E p \in Procs : SignoutAllStep(p)
    \/ CleanupStep

SpecForce == Init /\ [][NextForce]_vars

\* the same under the Go scheduler: a goroutine that can take its next step
\* eventually takes it, and the clock advances
CallStep(p) ==
    \/ saveCurrentAttendeesCopy(p)
    \/ saveCurrentAttendeesWrite(p)
    \/ SignoutAllStep(p)

FairForce ==
    /\ SpecForce
    /\ WF_vars(Tick)
    /\ WF_vars(CleanupStep)
    /\ \A p \in Procs : WF_vars(CallStep(p))

\* ---- vocabulary of the properties ----
Started == {p \in Procs : call[p].pc # "init"}

Overlap(p, q) == p \notin call[q].prior /\ q \notin call[p].prior

IsSignOutCall(p) == call[p].op \in {"scan", "signout"}

IsForceWriter(w) == IF w \in Procs THEN call[w].op = "all" ELSE TRUE

IsCallerWriter(w) == w \in Procs /\ IsSignOutCall(w)

IntervalOf(i) == <<sessionBy[i].uid, sessionBy[i].start>>

\* C1: two concurrent Toggle calls on the same known tag report one IN and
\* one OUT (never IN+IN or OUT+OUT), and afterwards the tag is present
\* exactly if it was present before the two calls.
C1_ToggleAtomic ==
    \A p, q \in Procs :
        ( /\ p < q
          /\ Started = {p, q}
          /\ Done(p) /\ Done(q)
          /\ Overlap(p, q)
          /\ call[p].op = "scan" /\ call[q].op = "scan"
          /\ call[p].arg = call[q].arg
          /\ call[p].arg \in DOMAIN userDB
          /\ call[p].resp \in {"in", "out"}
          /\ call[q].resp \in {"in", "out"}
          /\ sweeper.sweeps = 0 )
        => /\ call[p].resp # call[q].resp
           /\ (call[p].arg \in DOMAIN currentAttendees) = call[p].preIn

\* C2: a ClosedInterval is created once per sign-out: when a Toggle and a
\* Discord SignOut of the same identity both wrote a session row for the
\* same OpenInterval, that interval was removed from the map twice; no
\* interval removed once has two rows from the sign-out paths.
C2_OneRowPerSignOut ==
    \A i, j \in DOMAIN sessionBy :
        ( /\ i < j
          /\ IntervalOf(i) = IntervalOf(j)
          /\ IsCallerWriter(sessionBy[i].by)
          /\ IsCallerWriter(sessionBy[j].by)
          /\ {call[sessionBy[i].by].op, call[sessionBy[j].by].op}
                = {"scan", "signout"} )
        => CountOf(closures, IntervalOf(i)) >= 2

\* C3: ForceSignOutAll is atomic against Toggle/SignOut: an open interval
\* is closed by the sweep or by the racing caller, never by both; a row from
\* a sweep and a row from a caller for the same interval need two removals.
C3_SweepOrCallerNotBoth ==
    \A i, j \in DOMAIN sessionBy :
        ( /\ i # j
          /\ IntervalOf(i) = IntervalOf(j)
          /\ IsForceWriter(sessionBy[i].by)
          /\ IsCallerWriter(sessionBy[j].by) )
        => CountOf(closures, IntervalOf(i)) >= 2

\* C4: SignIn checks and signs in atomically: of two sign-ins for the same
\* identity (two SignIn calls, or a SignIn and a Toggle) both are
\* acknowledged only if an interval of that identity was closed in between.
C4_SignInAtomic ==
    \A p, q \in Procs :
        ( /\ p < q
          /\ Done(p) /\ Done(q)
          /\ call[p].op \in {"signin", "scan"}
          /\ call[q].op \in {"signin", "scan"}
          /\ "signin" \in {call[p].op, call[q].op}
          /\ call[p].member.UID = call[q].member.UID
          /\ call[p].resp = "in" /\ call[q].resp = "in" )
        => \E k \in DOMAIN closures : k[1] = call[p].member.UID

\* C5: no operation blocks for ever on the map lock: whenever mu is held it
\* is eventually released, and every request that has begun eventually
\* completes, also after a nightly sweep that found nobody present.
C5_LockAlwaysReleased ==
    /\ (mu # "free") ~> (mu = "free")
    /\ \A p \in Procs : (call[p].pc # "init") ~> Done(p)

\* an unknown tag: POST /scan with a uid that userDB does not hold
UnknownScan(c) == c.op = "scan" /\ c.arg \notin DOMAIN userDB

\* C6: Toggle of a tag that the directory cache does not resolve answers
\* 403 (UnknownIdentity), and no step of that request changes the presence
\* map, the sessions table or the snapshot file.
C6_UnknownTagRejected ==
    /\ [](\A p \in Procs :
              (Done(p) /\ UnknownScan(call[p])) => call[p].resp = "403")
    /\ [][\A p \in Procs :
              (call'[p] # call[p] /\ UnknownScan(call'[p]))
              => UNCHANGED <<currentAttendees, sessions, snapFile>>]_vars

C6_Witness ==
    \E p, q \in Procs :
        /\ Done(p) /\ UnknownScan(call[p]) /\ call[p].resp = "403"
        /\ Done(q) /\ call[q].resp = "in" /\ Overlap(p, q)
        /\ Len(scanHistory) = 2

\* the requests other than p and q that have run: all over before p began
OthersBefore(p, q) ==
    \A r \in Procs \ {p, q} : call[r].pc = "init" \/ r \in call[p].prior

FirstToggle(p) ==
    /\ Done(p)
    /\ call[p].op = "scan"
    /\ call[p].arg \in DOMAIN userDB
    /\ ~call[p].preIn
    /\ call[p].resp # "500"
    /\ sweeper.sweeps = 0

\* C7: from absent, two Toggle calls of a known tag one after the other, with
\* no storage error, report IN then OUT; after the first the map holds the
\* tag with the first call's time, after the second the tag is gone and the
\* two calls have appended exactly one session (member, start of the first,
\* time of the second), the last row of the table.
C7_InThenOut ==
    \A p \in Procs :
        /\ (FirstToggle(p) /\ OthersBefore(p, p))
           => /\ call[p].resp = "in"
              /\ call[p].arg \in DOMAIN currentAttendees
              /\ currentAttendees[call[p].arg] = call[p].at
        /\ \A q \in Procs \ {p} :
              ( /\ FirstToggle(p) /\ OthersBefore(p, q)
                /\ Done(q)
                /\ p \in call[q].prior
                /\ call[q].op = "scan" /\ call[q].arg = call[p].arg
                /\ call[q].resp # "500" )
              => /\ call[p].resp = "in" /\ call[q].resp = "out"
                 /\ call[p].arg \notin DOMAIN currentAttendees
                 /\ {i \in DOMAIN sessionBy : sessionBy[i].by \in {p, q}}
                      = {Len(sessions)}
                 /\ sessionBy[Len(sessions)].by = q
                 /\ sessions[Len(sessions)] =
                      SessionRow(UserOf(userDB, call[p].arg).ID,
                                 call[p].at, call[q].at)

C7_Witness ==
    \E p, q \in Procs :
        /\ FirstToggle(p) /\ call[p].resp = "in"
        /\ Done(q) /\ p \in call[q].prior
        /\ call[q].op = "scan" /\ call[q].arg = call[p].arg
        /\ call[q].resp = "out"
        /\ call[p].at = 1 /\ call[q].at = 2
        /\ sessions = <<SessionRow(UserOf(userDB, call[p].arg).ID, 1, 2)>>

\* C8: ForceSignOutAll with N identities present reports N and leaves the
\* map empty, both in handleSignoutAll (count, in the response) and in the
\* nightly cleanup (cnt, in the log line).
C8_ForceReportsAndClears ==
    /\ [](\A p \in Procs :
              (Done(p) /\ call[p].op = "all") => call[p].resp = "all")
    /\ [][\A p \in Procs :
              (call[p].pc = "all_clear" /\ call'[p].pc # "all_clear")
              => /\ call'[p].count = MapLen(currentAttendees)
                 /\ MapLen(currentAttendees') = 0]_vars
    /\ [][(sweeper.pc = "locked" /\ sweeper'.pc # "locked")
              => /\ sweeper'.cnt = MapLen(currentAttendees)
                 /\ MapLen(currentAttendees') = 0]_vars

C8_Witness ==
    \E p, q \in Procs :
        /\ Done(p) /\ call[p].op = "all" /\ call[p].count = 2
        /\ Done(q) /\ call[q].op = "all" /\ call[q].count = 0
        /\ sweeper.sweeps = 1 /\ sweeper.pc = "idle" /\ mu = "sweeper"
        /\ MapLen(currentAttendees) = 0

\* C9: all sessions written by one ForceSignOutAll (one admin request, one
\* nightly sweep) carry the same end_time, the single sweep instant,
\* whatever time passes while the rows are written.
C9_OneSweepInstant ==
    \A i, j \in DOMAIN sessionBy :
        (sessionBy[i].by = sessionBy[j].by /\ IsForceWriter(sessionBy[i].by))
        => sessions[i].signout_time = sessions[j].signout_time

\* C10: k concurrent Toggle calls on k distinct known tags, all absent
\* before, leave k OpenIntervals in the map, one per tag.
C10_NoLostSignIn ==
    ( /\ Started # {}
      /\ \A p \in Started :
            /\ Done(p)
            /\ call[p].op = "scan"
            /\ call[p].arg \in DOMAIN userDB
            /\ ~call[p].preIn
      /\ \A p, q \in Started :
            p # q => (call[p].arg # call[q].arg /\ Overlap(p, q))
      /\ sweeper.sweeps = 0 )
    => /\ \A p \in Started : call[p].arg \in DOMAIN currentAttendees
       /\ Cardinality(DOMAIN currentAttendees
                        \cap {call[p].arg : p \in Started})
            = Cardinality(Started)

C10_Witness ==
    /\ Cardinality(Started) = 2
    /\ \A p \in Started : Done(p) /\ call[p].op = "scan" /\ call[p].resp = "in"
    /\ \A p, q \in Started : p # q => Overlap(p, q)
    /\ DOMAIN currentAttendees = {"U1", "U2"}
    /\ Len(scanHistory) = 2

\* ---- Discord sign-in / sign-out of the registered members, in sequence ----
KnownDiscordIDs == {m.DiscordID : m \in InitMembers}

NextReject ==
    \/ Tick
    \/ \E p \in Procs : Quiet /\ \E id \in KnownDiscordIDs : Start(p, "signin", id)
    \/ \E p \in Procs : Quiet /\ \E id \in KnownDiscordIDs : Start(p, "signout", id)
    \/ \E p \in Procs : EngineStep(p)
    \/ \E p \in Procs : DiscordStep(p)

SpecReject == Init /\ [][NextReject]_vars

\* a SignIn of a present identity, a SignOut of an absent one
RejectedCase(c) ==
    \/ c.op = "signin" /\ c.preIn
    \/ c.op = "signout" /\ ~c.preIn /\ MembersByDiscord(userDB, c.arg) # {}

\* C11: run one after the other, a SignIn of an identity that is present and
\* a SignOut of an identity that is absent answer 409, and no step of such a
\* request changes the presence map (so the start_time stays), the sessions
\* table or the snapshot file.
C11_RejectsLeaveStateAlone ==
    /\ [](\A p \in Procs :
              (Done(p) /\ RejectedCase(call[p])) => call[p].resp = "409")
    /\ [][\A p \in Procs :
              (call'[p] # call[p] /\ RejectedCase(call'[p]))
              => UNCHANGED <<currentAttendees, sessions, snapFile>>]_vars

C11_Witness ==
    \E p, q \in Procs :
        /\ Done(p) /\ call[p].op = "signin" /\ call[p].resp = "409"
        /\ call[p].member.UID = "U1"
        /\ Done(q) /\ call[q].op = "signout" /\ call[q].resp = "409"
        /\ call[q].member.UID = "U2"
        /\ p \in call[q].prior
        /\ currentAttendees = [u \in {"U1"} |-> 0]
        /\ snapFile = FileOf(currentAttendees)
        /\ sessions = <<>>
        /\ now = MaxTime

\* ---- the snapshot file against the map ----
\* no insert into sessions and no file write has failed
NoStorageError ==
    /\ \A p \in Procs : call[p].appendErrs = 0 /\ ~call[p].writeErr
    /\ sweeper.appendErrs = 0

\* a sign-in, a sign-out, a sign-out-all or a nightly sweep has completed
MutationCompleted ==
    \/ \E p \in Procs : Done(p) /\ call[p].resp \in {"in", "out", "all"}
    \/ sweeper.sweeps > 0 /\ sweeper.pc \in {"idle", "waiting"}

\* nothing is in flight: no request, no sweep
AtRest == Quiet /\ sweeper.pc \in {"idle", "waiting"}

\* C12: once a sign-in, a sign-out, the administrative sign-out-all or the
\* nightly sweep has completed without a storage error and nothing else is
\* in flight, the snapshot file holds exactly the in-memory presence map.
C12_SnapshotFollowsMutation ==
    (AtRest /\ MutationCompleted /\ NoStorageError)
    => snapFile = FileOf(currentAttendees)

\* ---- member deletes against the administrative sign-out-all, within one
\* clock tick ----
NextMembers ==
    \/ \E p \in Procs : SignoutAllRequest(p)
    \/ \E p \in Procs : DeleteRequest(p)
    \/ \E p \in Procs : saveCurrentAttendeesCopy(p)
    \/ \E p \in Procs : saveCurrentAttendeesWrite(p)
    \/ \E p \in Procs : SignoutAllStep(p)
    \/ \E p \in Procs : MemberStep(p)

SpecMembers == Init /\ [][NextMembers]_vars

\* C13: a DELETE /members/{id} of a member whose uid is in the presence map
\* answers 409: the presence test of the request sends it there, a request
\* that found the member present at its start and ran alone ends there, and
\* no step of the request up to the 409 changes the members table, the
\* sessions table, the cache or the presence map.
C13_PresentMemberNotDeleted ==
    /\ [](\A p \in Procs :
              ( /\ Done(p) /\ call[p].op = "delete" /\ call[p].preIn
                /\ OthersBefore(p, p) /\ call[p].resp # "500" )
              => call[p].resp = "409")
    /\ [][\A p \in Procs :
              ( /\ call[p].pc = "del_check" /\ call'[p].pc # "del_check"
                /\ call[p].member.UID \in DOMAIN currentAttendees )
              => call'[p].pc = "done" /\ call'[p].resp = "409"]_vars
    /\ [][\A p \in Procs :
              ( /\ call'[p] # call[p] /\ call'[p].op = "delete"
                /\ call'[p].pc \in {"del_query", "del_check", "done"}
                /\ call'[p].resp \in {"none", "409"} )
              => UNCHANGED <<members, sessions, userDB, currentAttendees>>]_vars

C13_Witness ==
    \E p, q \in Procs :
        /\ Done(p) /\ call[p].op = "delete" /\ call[p].resp = "409"
        /\ call[p].member.UID = "U1" /\ "U1" \in DOMAIN currentAttendees
        /\ Done(q) /\ call[q].op = "delete" /\ call[q].resp = "deleted"
        /\ call[q].member.UID = "U2"
        /\ {m.UID : m \in members} = {"U1"}
        /\ DOMAIN userDB = {"U1"}

\* the sessions of one member, in table order
SessionsOf(ss, id) == SelectSeq(ss, LAMBDA r : r.member_id = id)

\* C14: the DELETE of a member removes every session of that member and
\* leaves the sessions of every other member as they were; no session of a
\* deleted member is in the table afterwards.
C14_DeleteCascades ==
    /\ [][\A p \in Procs :
              (call[p].pc = "del_exec" /\ call'[p].pc = "reload_query")
              => /\ SessionsOf(sessions', call[p].id) = <<>>
                 /\ \A o \in MemberIDs \ {call[p].id} :
                       SessionsOf(sessions', o) = SessionsOf(sessions, o)]_vars
    /\ [](\A p \in Procs :
              (Done(p) /\ call[p].op = "delete" /\ call[p].resp = "deleted")
              => SessionsOf(sessions, call[p].id) = <<>>)

C14_Witness ==
    \E p, q \in Procs :
        /\ Done(p) /\ call[p].op = "all" /\ call[p].count = 2
        /\ call[p].appendErrs = 0
        /\ Done(q) /\ call[q].op = "delete" /\ call[q].resp = "deleted"
        /\ call[q].id = 1 /\ call[q].cascaded = 1
        /\ Len(sessions) = 1 /\ sessions[1].member_id = 2

\* ---- the start of the process, scans one after the other, kills ----
\* main at the load: the members are cached, the map is the fresh
\* make(map[string]time.Time), and current_attendees.json is absent, not
\* JSON, or what an earlier run of the process wrote last
InitBoot ==
    /\ now = 0
    /\ members = InitMembers
    /\ userDB = CacheOf(InitMembers)
    /\ currentAttendees = EmptyMap
    /\ \/ snapFile \in {NoFile, BadFile} /\ lastSaved = EmptyMap
       \/ \E m \in InitMaps : snapFile = FileOf(m) /\ lastSaved = m
    /\ scanHistory = <<>>
    /\ scanLog = <<>>
    /\ sessions = <<>>
    /\ mu = "free"
    /\ call = [p \in Procs |-> IdleCall]
    /\ sweeper = IdleSweeper
    /\ main = [pc |-> "load", loaded |-> "none", boots |-> 0, keys |-> {}]
    /\ closures = EmptyMap
    /\ sessionBy = <<>>

\* the tag that is scanned here: the first member's
BootUIDs == {"U1"}

NextBoot ==
    \/ loadCurrentAttendees
    \/ mainListen
    \/ Crash
    \/ Tick
    \/ \E p \in Procs : Quiet /\ \E uid \in BootUIDs : Start(p, "scan", uid)
    \/ \E p \in Procs : ScanStep(p)
    \/ \E p \in Procs : EngineStep(p)

SpecBoot == InitBoot /\ [][NextBoot]_vars

\* C15: a start that finds no snapshot file goes on with an empty map, and
\* a start that finds a malformed snapshot file is fatal: the process does
\* not get to serve requests.
C15_MalformedSnapshotIsFatal ==
    /\ (main.pc = "loaded" /\ main.loaded = "missing")
       => currentAttendees = EmptyMap
    /\ main.loaded = "malformed" => main.pc # "serving"

\* C16: what saveCurrentAttendees writes, loadCurrentAttendees reads back as
\* the same map (same uids, same sign-in times); the map after a restart is
\* the map of the last completed write; and scans after the restart treat
\* it like a map built in memory: OUT exactly for the uids it holds, with
\* the session of the interval that was removed.
C16_SaveLoadIdentity ==
    /\ [][\A p \in Procs :
              ( /\ call[p].pc = "save_write" /\ call'[p].pc # "save_write"
                /\ ~call'[p].writeErr /\ call'[p].resp # "killed" )
              => /\ snapFile'.kind = "json"
                 /\ Unmarshal(snapFile'.entries) = call[p].copyMap]_vars
    /\ [][(main.pc = "load" /\ main'.pc = "loaded" /\ main'.loaded = "json")
              => currentAttendees' = lastSaved]_vars
    /\ [](\A p \in Procs :
              ( /\ Done(p) /\ call[p].op = "scan"
                /\ call[p].resp \in {"in", "out"} )
              => /\ (call[p].resp = "out") = call[p].preIn
                 /\ \A i \in DOMAIN sessionBy :
                       sessionBy[i].by = p
                       => /\ IntervalOf(i) \in DOMAIN closures
                          /\ sessions[i].signin_time
                               = Format(sessionBy[i].start))

C16_Witness ==
    \E p, q \in Procs :
        /\ main.boots = 1 /\ main.pc = "serving" /\ main.loaded = "json"
        /\ Done(p) /\ call[p].op = "scan" /\ call[p].resp = "in"
        /\ call[p].at = 1
        /\ Done(q) /\ call[q].op = "scan" /\ call[q].resp = "out"
        /\ call[q].arg = call[p].arg /\ p \in call[q].prior
        /\ Len(scanHistory) = 1
        /\ sessions = <<SessionRow(call[q].member.ID, 1, MaxTime)>>
        /\ lastSaved = EmptyMap /\ snapFile = FileOf(EmptyMap)

\* a sign-in or sign-out that ended with a storage error
FailedCall(p) ==
    /\ Done(p)
    /\ call[p].op \in {"scan", "signin", "signout"}
    /\ call[p].resp = "500"

\* C17: a storage error does not undo the change of the map: after a
\* sign-in whose snapshot write failed the identity is in the map with the
\* time of that sign-in, after a sign-out whose session insert or snapshot
\* write failed it is not, and the next Toggle of the identity acts on that
\* state.
C17_ErrorKeepsMutation ==
    \A p \in Procs :
        /\ (FailedCall(p) /\ OthersBefore(p, p))
           => IF call[p].preIn
              THEN call[p].member.UID \notin DOMAIN currentAttendees
              ELSE /\ call[p].member.UID \in DOMAIN currentAttendees
                   /\ currentAttendees[call[p].member.UID] = call[p].at
        /\ \A q \in Procs \ {p} :
              ( /\ FailedCall(p) /\ OthersBefore(p, q)
                /\ Done(q) /\ p \in call[q].prior
                /\ call[q].op = "scan" /\ call[q].arg = call[p].member.UID
                /\ call[q].resp \in {"in", "out"} )
              => call[q].resp = (IF call[p].preIn THEN "in" ELSE "out")

C17_Witness ==
    \E p, q \in Procs :
        /\ FailedCall(p) /\ ~call[p].preIn /\ call[p].writeErr
        /\ call[p].at = 1
        /\ Done(q) /\ p \in call[q].prior
        /\ call[q].op = "scan" /\ call[q].arg = call[p].member.UID
        /\ call[q].resp = "out"
        /\ sessions = <<SessionRow(call[p].member.ID, 1, MaxTime)>>
        /\ call[p].member.UID \notin DOMAIN currentAttendees

\* the sessions a writer has appended
RowsBy(w) == {i \in DOMAIN sessionBy : sessionBy[i].by = w}

\* C18: in a ForceSignOutAll (handleSignoutAll, nightly cleanup) a failed
\* session insert is logged, once per failure, and the loop goes on: when
\* the operation is over every identity it took from the map has had its
\* insert attempted (a row or a counted failure).
C18_SweepErrorLoggedNotFatal ==
    /\ sweeper.logged = sweeper.appendErrs
    /\ \A p \in Procs :
          call[p].op = "all" => call[p].logged = call[p].appendErrs
    /\ \A p \in Procs :
          (Done(p) /\ call[p].op = "all")
          => /\ DOMAIN call[p].toSignOut = {}
             /\ Cardinality(RowsBy(p)) + call[p].appendErrs = call[p].count
    /\ sweeper.pc \in {"idle", "waiting"} => DOMAIN sweeper.toSignOut = {}

\* ---- the cleanup goroutine over more than one night ----
\* the clock runs one day past MaxTime, so that a second 04:00 comes
Horizon == MaxTime + DayTicks

TickNight ==
    /\ now < Horizon
    /\ now' = now + 1
    /\ UNCHANGED <<members, userDB, currentAttendees, scanHistory, scanLog, sessions,
                   snapFile, mu, call, sweeper, main, closures, sessionBy,
                   lastSaved>>

NextNight ==
    \/ TickNight
    \/ \E p \in Procs : SignoutAllRequest(p)
    \/ \E p \in Procs : CallStep(p)
    \/ CleanupStep

SpecNight == Init /\ [][NextNight]_vars

\* the Go scheduler runs every goroutine that can take a step; time passes
FairNight ==
    /\ SpecNight
    /\ WF_vars(TickNight)
    /\ WF_vars(CleanupStep)
    /\ \A p \in Procs : WF_vars(CallStep(p))

\* the k-th 04:00 after the start, and the nights the clock reaches
FourAMOf(k) == FourAMTick + (k - 1) * DayTicks

Nights == {k \in 1..(Horizon \div DayTicks + 1) : FourAMOf(k) <= Horizon}

\* C19: the scheduler keeps cycling Idle -> Waiting -> Sweeping -> Idle:
\* every 04:00 the clock reaches is followed by a sweep (the k-th 04:00 by
\* the k-th sweep), every sweep gets back to Idle whether or not anybody was
\* present, and whoever is present when the timer has fired is removed from
\* the map.
C19_SweepEveryNight ==
    /\ \A k \in Nights : (now >= FourAMOf(k)) ~> (sweeper.sweeps >= k)
    /\ (sweeper.pc \in {"locked", "rows"}) ~> (sweeper.pc \in {"idle", "waiting"})
    /\ \A u \in DOMAIN CacheOf(InitMembers) :
          ( /\ sweeper.pc = "waiting" /\ now >= sweeper.next
            /\ u \in DOMAIN currentAttendees )
          ~> (u \notin DOMAIN currentAttendees)

\* ---- GET /current between scans, one request after the other ----
NextList ==
    \/ Tick
    \/ \E p \in Procs : Quiet /\ ScanRequest(p)
    \/ \E p \in Procs : Quiet /\ CurrentRequest(p)
    \/ \E p \in Procs : ScanStep(p)
    \/ \E p \in Procs : EngineStep(p)
    \/ \E p \in Procs : CurrentStep(p)

SpecList == Init /\ [][NextList]_vars

\* C20: the list that handleCurrent returns is in order of non-decreasing
\* sign-in time, whatever the map holds and in whatever order the range
\* loop visited it.
C20_ListOrdered ==
    \A p \in Procs :
        (Done(p) /\ call[p].op = "current")
        => \A i, j \in DOMAIN call[p].activeList :
              i < j => call[p].activeList[i].SignInTime
                         <= call[p].activeList[j].SignInTime

C20_Witness ==
    \E p \in Procs :
        /\ Done(p) /\ call[p].op = "current" /\ call[p].resp = "list"
        /\ Len(call[p].activeList) = 2
        /\ call[p].activeList[1] = ActiveAttendee("U1", 0)
        /\ call[p].activeList[2].SignInTime = MaxTime

\* ---- GET /current and GET /count while scans are served ----
NextRead ==
    \/ \E p \in Procs : ScanRequest(p)
    \/ \E p \in Procs : CurrentRequest(p)
    \/ \E p \in Procs : CountRequest(p)
    \/ \E p \in Procs : ScanStep(p)
    \/ \E p \in Procs : EngineStep(p)
    \/ \E p \in Procs : CurrentStep(p)
    \/ \E p \in Procs : handleCount(p)

SpecRead == Init /\ [][NextRead]_vars

\* the entries of a returned list, as a set
ListEntries(l) == {l[i] : i \in DOMAIN l}

\* C21: what GET /current and GET /count return while scans change the map
\* is the map as it was at one instant, the one of the read-lock section:
\* the list has one entry for each identity present at that instant, with
\* its sign-in time, no entry twice and no other entry, and the count is
\* the number of identities present at that instant.
C21_ReadsAreSnapshots ==
    \A p \in Procs :
        /\ (Done(p) /\ call[p].op = "current")
           => /\ ListEntries(call[p].activeList)
                   = {ActiveAttendee(u, call[p].seen[u]) : u \in DOMAIN call[p].seen}
              /\ Len(call[p].activeList) = Cardinality(DOMAIN call[p].seen)
        /\ (Done(p) /\ call[p].op = "count")
           => call[p].count = Cardinality(DOMAIN call[p].seen)

\* a list returned while an overlapping scan changed the map
C21_Witness ==
    \E p, q \in Procs :
        /\ Done(p) /\ call[p].op = "current"
        /\ call[q].op = "scan" /\ Overlap(p, q)
        /\ call[q].ret \in {"in", "out"}
        /\ Len(call[p].activeList) >= 1
        /\ call[p].seen # currentAttendees

\* ---- apiKeyMiddleware ----
\* the keys loadAPIKeys can find in the environment, none of them empty
KeySets == {{}, {"K1"}, {"K1", "K2"}}

\* r.Header.Get("X-API-Key"): "" when the header is missing
HeaderKeys == {"", "K1", "K2", "KX"}

\* r.URL.Path of the requests and the handler registered for it
Paths == {"/scan", "/count", "/health"}

HandlerOf(path) ==
    CASE path = "/scan" -> "scan"
      [] path = "/count" -> "count"
      [] OTHER -> "health"

BodiesOf(path) == IF path = "/scan" THEN ScanUIDs ELSE {""}

\* a middleware that takes any key that is not empty
KeyPasses_AnyKey(valid, path, apiKey) ==
    path = "/health" \/ valid = {} \/ apiKey # ""

\* the three tests of the middleware, in their order
KeyPasses(valid, path, apiKey) ==
    IF path = "/health" THEN TRUE
    ELSE IF Cardinality(valid) = 0 THEN TRUE
    ELSE IF apiKey = "" \/ apiKey \notin valid THEN FALSE
    ELSE TRUE

\* the handler function the middleware returns: next(w, r), or the 401
\* response and return
apiKeyMiddleware(p, path, apiKey, body) ==
    /\ main.pc = "serving"
    /\ call[p].pc = "init"
    /\ \A q \in Procs : q < p => call[q].pc # "init"
    /\ IF KeyPasses(main.keys, path, apiKey)
       THEN call' = [call EXCEPT ![p] =
                       [NewCall(HandlerOf(path), body) EXCEPT
                          !.path = path, !.apiKey = apiKey]]
       ELSE call' = [call EXCEPT ![p] =
                       [IdleCall EXCEPT !.pc = "done", !.resp = "401",
                                        !.path = path, !.apiKey = apiKey]]
    /\ UNCHANGED <<main, lastSaved, now, members, userDB, currentAttendees,
                   scanHistory, scanLog, sessions, snapFile, mu, sweeper, closures,
                   sessionBy>>

\* handleHealth: 200 and "OK"
handleHealth(p) ==
    /\ call[p].pc = "health"
    /\ call' = [call EXCEPT ![p].pc = "done", ![p].resp = "OK"]
    /\ UNCHANGED <<main, lastSaved, now, members, userDB, currentAttendees,
                   scanHistory, scanLog, sessions, snapFile, mu, sweeper, closures,
                   sessionBy>>

\* the server with any of the key sets configured
InitGate ==
    /\ now = 0
    /\ members = InitMembers
    /\ userDB = CacheOf(InitMembers)
    /\ currentAttendees \in InitMaps
    /\ snapFile = FileOf(currentAttendees)
    /\ scanHistory = <<>>
    /\ scanLog = <<>>
    /\ sessions = <<>>
    /\ mu = "free"
    /\ call = [p \in Procs |-> IdleCall]
    /\ sweeper = IdleSweeper
    /\ \E ks \in KeySets : main = [Serving EXCEPT !.keys = ks]
    /\ closures = EmptyMap
    /\ sessionBy = <<>>
    /\ lastSaved = currentAttendees

NextGate ==
    \/ \E p \in Procs, path \in Paths, k \in HeaderKeys :
          \E body \in BodiesOf(path) :
              Quiet /\ apiKeyMiddleware(p, path, k, body)
    \/ \E p \in Procs : ScanStep(p)
    \/ \E p \in Procs : EngineStep(p)
    \/ \E p \in Procs : handleCount(p)
    \/ \E p \in Procs : handleHealth(p)

SpecGate == InitGate /\ [][NextGate]_vars

\* the requests that went through the middleware
Gated == {p \in Procs : call[p].path # ""}

\* C22: with at least one key configured, a request to a path other than
\* /health whose X-API-Key header is missing or is not a configured key is
\* answered 401 without entering the handler, and its arrival changes
\* nothing but that response; with no key configured every request enters
\* the handler of its path, and so does every request to /health.
C22_KeyGate ==
    /\ [](\A p \in Gated :
            /\ ( main.keys # {} /\ call[p].path # "/health"
                 /\ call[p].apiKey \notin main.keys )
               => ( call[p].resp = "401" /\ call[p].op = "none" )
            /\ ( main.keys = {} \/ call[p].path = "/health" )
               => ( call[p].op = HandlerOf(call[p].path)
                    /\ call[p].resp # "401" ))
    /\ [][\A p \in Procs :
            (call[p].resp # "401" /\ call'[p].resp = "401")
            => UNCHANGED <<currentAttendees, scanHistory, scanLog, sessions, snapFile,
                           members, userDB, mu, sweeper>>]_vars

\* one request turned away for a key that is not configured, and one with
\* a configured key whose scan signed the member in
C22_Witness ==
    \E p, q \in Procs :
        /\ main.keys = {"K1"}
        /\ call[p].path = "/scan" /\ call[p].apiKey = "K2"
        /\ call[p].resp = "401"
        /\ call[q].path = "/scan" /\ call[q].apiKey = "K1"
        /\ Done(q) /\ call[q].ret = "in"

\* ---- scans of unregistered tags and GET /scan-history, in sequence ----
\* two tags that no member has
HistoryUIDs == {"UX", "UY"}

ScanHistoryRequest(p) == Start(p, "scanhist", "")

\* the request is answered and its goroutine ends; the next request is
\* served by a new one
Recycle(p) ==
    /\ Done(p)
    /\ call' = [call EXCEPT ![p] = IdleCall]
    /\ UNCHANGED <<main, lastSaved, now, members, userDB, currentAttendees,
                   scanHistory, scanLog, sessions, snapFile, mu, sweeper,
                   closures, sessionBy>>

\* no request is being served and every goroutine that served one has ended
AllEnded == \A q \in Procs : call[q].pc = "init"

NextHistory ==
    \/ \E p \in Procs, uid \in HistoryUIDs : AllEnded /\ Start(p, "scan", uid)
    \/ \E p \in Procs : AllEnded /\ ScanHistoryRequest(p)
    \/ \E p \in Procs : recordScanEvent(p)
    \/ \E p \in Procs : handleScanLookup(p)
    \/ \E p \in Procs : handleScanHistoryCopy(p)
    \/ \E p \in Procs : handleScanHistoryReverse(p)
    \/ \E p \in Procs : Recycle(p)

SpecHistory == Init /\ [][NextHistory]_vars

\* the last n elements of l, all of l when it has fewer
LastN(l, n) == IF Len(l) <= n THEN l ELSE SubSeq(l, Len(l) - n + 1, Len(l))

\* C23: after n scans the scan history is the min(n, 10) most recent scan
\* events in the order they were recorded; GET /scan-history returns the
\* events held when it read the history, newest first, and no step of it
\* changes the stored history.
C23_LastTenScans ==
    /\ [](scanHistory = LastN(scanLog, MaxScanHistory))
    /\ [](\A p \in Procs :
            (Done(p) /\ call[p].op = "scanhist")
            => LET held == LastN(SubSeq(scanLog, 1, call[p].count), MaxScanHistory)
               IN  /\ Len(call[p].history) = Len(held)
                   /\ \A i \in DOMAIN held :
                         call[p].history[i] = held[Len(held) + 1 - i])
    /\ [][\A p \in Procs :
            (call[p].op = "scanhist" /\ call'[p] # call[p])
            => scanHistory' = scanHistory]_vars

\* the eleventh scan pushed the first one out, and the history was read
\* after it
C23_Witness ==
    \E p \in Procs :
        /\ Done(p) /\ call[p].op = "scanhist"
        /\ call[p].count = MaxScanHistory + 1
        /\ Len(call[p].history) = MaxScanHistory
        /\ scanLog[1].UID = "UX" /\ scanLog[2].UID = "UY"
        /\ call[p].history[MaxScanHistory].UID = "UY"
        /\ call[p].history[1].UID = "UX"

\* ---- handleHistory, GET /history?from=..&to=..&limit=.. ----
\* the values of a query parameter: absent (NoTime), or a second
QueryTimes == {NoTime, 0, 1}

\* absent (NoTime), or a count
QueryLimits == {NoTime, 1, 2}

\* a request with its query string; the handler never reads r.URL.Query()
HistoryRequest(p, from, to, limit) ==
    /\ main.pc = "serving"
    /\ call[p].pc = "init"
    /\ \A q \in Procs : q < p => call[q].pc # "init"
    /\ call' = [call EXCEPT ![p] =
                  [NewCall("history", "") EXCEPT
                     !.from = from, !.to = to, !.limit = limit]]
    /\ UNCHANGED <<main, lastSaved, now, members, userDB, currentAttendees,
                   scanHistory, scanLog, sessions, snapFile, mu, sweeper,
                   closures, sessionBy>>

\* SELECT m.name, s.signin_time, s.signout_time FROM sessions s JOIN
\* members m ON m.id = s.member_id: the rows of sessions whose member exists
JoinedRows(ss, mem) ==
    {i \in DOMAIN ss : ss[i].member_id \in {m.ID : m \in mem}}

\* ORDER BY s.signin_time DESC: the orders of the joined rows that it
\* allows (rows of the same second in any order)
loadHistoryFromDB(ss, mem) ==
    {[k \in DOMAIN f |-> ss[f[k]]] :
        f \in {g \in Perms(JoinedRows(ss, mem)) :
                 \A a, b \in DOMAIN g :
                    a < b => ss[g[a]].signin_time >= ss[g[b]].signin_time}}

\* sessions, err := loadHistoryFromDB(); 500 on an error, else the encoding
\* of all the sessions
handleHistory(p) ==
    /\ call[p].pc = "hist_load"
    /\ \/ \E l \in loadHistoryFromDB(sessions, members) :
             call' = [call EXCEPT ![p].pc = "done", ![p].resp = "list",
                                  ![p].history = l,
                                  ![p].count = Len(sessions)]
       \/ call' = [call EXCEPT ![p].pc = "done", ![p].resp = "500"]
    /\ UNCHANGED <<main, lastSaved, now, members, userDB, currentAttendees,
                   scanHistory, scanLog, sessions, snapFile, mu, sweeper,
                   closures, sessionBy>>

\* ---- GET /history after sign-outs, one request after the other ----
NextQuery ==
    \/ Tick
    \/ \E p \in Procs : Quiet /\ ScanRequest(p)
    \/ \E p \in Procs : Quiet /\ SignoutAllRequest(p)
    \/ \E p \in Procs, from \in QueryTimes, to \in QueryTimes,
          limit \in QueryLimits : Quiet /\ HistoryRequest(p, from, to, limit)
    \/ \E p \in Procs : ScanStep(p)
    \/ \E p \in Procs : EngineStep(p)
    \/ \E p \in Procs : SignoutAllStep(p)
    \/ \E p \in Procs : handleHistory(p)

SpecQuery == Init /\ [][NextQuery]_vars

\* start_time lies within the bounds a request gave, each bound optional
InBounds(c, t) ==
    /\ (c.from # NoTime => t >= c.from)
    /\ (c.to # NoTime => t <= c.to)

\* C24: the session query returns, newest start_time first, exactly the
\* stored sessions whose start_time lies within the inclusive bounds from
\* and to (each optional), cut to the first limit of them when a limit is
\* given.
C24_QueryFiltersAndLimits ==
    \A p \in Procs :
        (Done(p) /\ call[p].op = "history" /\ call[p].resp = "list")
        => LET c == call[p]
               stored == SubSeq(sessions, 1, c.count)
               hits == {i \in DOMAIN stored : InBounds(c, stored[i].signin_time)}
               n == Cardinality(hits)
           IN  /\ \A k \in DOMAIN c.history :
                     InBounds(c, c.history[k].signin_time)
               /\ Len(c.history) = IF c.limit # NoTime /\ c.limit < n
                                    THEN c.limit ELSE n
               /\ \A a, b \in DOMAIN c.history :
                     a < b => c.history[a].signin_time
                                >= c.history[b].signin_time
               /\ \A k \in DOMAIN c.history :
                     \E i \in hits : stored[i] = c.history[k]

\* ---- Session Store Delete(filter), DELETE /visits ----
\* a request with the filter from, to, member_id, each of them optional
DeleteVisitsRequest(p, from, to, id) ==
    /\ main.pc = "serving"
    /\ call[p].pc = "init"
    /\ \A q \in Procs : q < p => call[q].pc # "init"
    /\ call' = [call EXCEPT ![p] =
                  [NewCall("visits", "") EXCEPT
                     !.from = from, !.to = to, !.id = id]]
    /\ UNCHANGED <<main, lastSaved, now, members, userDB, currentAttendees,
                   scanHistory, scanLog, sessions, snapFile, mu, sweeper,
                   closures, sessionBy>>

\* a filter that matches every row
VisitHits_All(ss, c) == DOMAIN ss

\* the rows the filter of request c matches
VisitHits(ss, c) ==
    {i \in DOMAIN ss :
        /\ (c.id # NoMember.ID => ss[i].member_id = c.id)
        /\ (c.from # NoTime => ss[i].signin_time >= c.from)
        /\ (c.to # NoTime => ss[i].signin_time <= c.to)}

\* NoFilterSpecified when the filter is empty, else the matching rows are
\* removed and their number is returned
DeleteVisits(p) ==
    LET c == call[p]
        hits == VisitHits(sessions, c)
    IN
    /\ c.pc = "visits_delete"
    /\ IF c.from = NoTime /\ c.to = NoTime /\ c.id = NoMember.ID
       THEN /\ call' = [call EXCEPT ![p].pc = "done",
                                    ![p].resp = "NoFilterSpecified"]
            /\ UNCHANGED <<sessions, sessionBy>>
       ELSE /\ sessions' = Pick(sessions, DOMAIN sessions \ hits)
            /\ sessionBy' = Pick(sessionBy, DOMAIN sessions \ hits)
            /\ call' = [call EXCEPT ![p].pc = "done", ![p].resp = "removed",
                                    ![p].count = Cardinality(hits)]
    /\ UNCHANGED <<main, lastSaved, now, members, userDB, currentAttendees,
                   scanHistory, scanLog, snapFile, mu, sweeper, closures>>

\* ---- DELETE /visits after sign-outs, one request after the other ----
NextPurge ==
    \/ \E p \in Procs : Quiet /\ SignoutAllRequest(p)
    \/ \E p \in Procs, from \in QueryTimes, to \in QueryTimes,
          id \in MemberIDs : Quiet /\ DeleteVisitsRequest(p, from, to, id)
    \/ \E p \in Procs : saveCurrentAttendeesCopy(p)
    \/ \E p \in Procs : saveCurrentAttendeesWrite(p)
    \/ \E p \in Procs : SignoutAllStep(p)
    \/ \E p \in Procs : DeleteVisits(p)

SpecPurge == Init /\ [][NextPurge]_vars

\* C25: a Delete with none of from, to and identity_id fails with
\* NoFilterSpecified and removes no session; a Delete with identity_id = X
\* alone removes the sessions of X, all of them, and no other, and returns
\* their number.
C25_DeleteNeedsFilter ==
    [][\A p \in Procs :
         (call[p].pc = "visits_delete" /\ call'[p].pc = "done")
         => LET c == call[p] IN
            /\ (c.from = NoTime /\ c.to = NoTime /\ c.id = NoMember.ID)
               => ( call'[p].resp = "NoFilterSpecified"
                    /\ sessions' = sessions )
            /\ (c.from = NoTime /\ c.to = NoTime /\ c.id # NoMember.ID)
               => ( sessions' = SelectSeq(sessions,
                                          LAMBDA r : r.member_id # c.id)
                    /\ call'[p].count
                         = Len(sessions) - Len(sessions') )]_vars

\* the sessions of member 1 removed while the one of member 2 stays
C25_Witness ==
    \E p, q \in Procs :
        /\ Done(p) /\ call[p].op = "visits" /\ call[p].id = 1
        /\ call[p].from = NoTime /\ call[p].to = NoTime
        /\ call[p].count = 1
        /\ Len(sessions) = 1 /\ sessions[1].member_id = 2
        /\ call[q].op = "all"

\* ---- POST /members and PUT /members/{id}, served concurrently ----
NextDirectory ==
    \/ \E p \in Procs, uid \in NewUIDs, d \in NewDiscordIDs :
          CreateRequest(p, uid, d)
    \/ \E p \in Procs, id \in MemberIDs, uid \in NewUIDs, d \in NewDiscordIDs :
          UpdateRequest(p, id, uid, d)
    \/ \E p \in Procs : handleMembersInsert(p)
    \/ \E p \in Procs : handleMemberUpdate(p)
    \/ \E p \in Procs : loadMembersIntoCacheQuery(p)
    \/ \E p \in Procs : loadMembersIntoCacheAssign(p)

SpecDirectory == Init /\ [][NextDirectory]_vars

\* the request of p, when its statement runs, would give a second member
\* the uid it names
WouldDuplicate(p) ==
    /\ call[p].member.UID # "" /\ call[p].member.DiscordID # ""
    /\ \E m \in members : m.UID = call[p].member.UID /\ m.ID # call[p].id
    /\ call[p].op = "update" => \E m \in members : m.ID = call[p].id

\* C26: no two members have the same uid, in every reachable state; a
\* create or an update whose statement would give a second member a uid
\* that is taken is answered 409 (500 when the statement fails for another
\* reason) and changes neither the members table nor the cache, and only
\* such a request is answered 409.
C26_UniqueTag ==
    /\ [](\A m1, m2 \in members : m1.UID = m2.UID => m1 = m2)
    /\ [][\A p \in Procs :
            (call[p].pc \in {"create_exec", "update_exec"}
             /\ call'[p].pc # call[p].pc)
            => /\ WouldDuplicate(p)
                  => ( call'[p].resp \in {"409", "500"}
                       /\ UNCHANGED <<members, userDB>> )
               /\ call'[p].resp = "409" => WouldDuplicate(p)]_vars

\* a create refused for the uid of member 1 after an update moved member 2
\* to a new uid and the cache was reloaded
C26_Witness ==
    \E p, q \in Procs :
        /\ Done(p) /\ call[p].op = "create" /\ call[p].resp = "409"
        /\ call[p].member.UID = "U1"
        /\ Done(q) /\ call[q].op = "update" /\ call[q].resp = "200"
        /\ call[q].id = 2 /\ "U3" \in DOMAIN userDB
        /\ Cardinality(members) = 2

\* the steps of a request goroutine that append a session, write the
\* snapshot file or run a statement on the members or sessions table
RequestIO ==
    {"so_append", "save_write", "all_rows", "del_query", "del_exec",
     "reload_query", "create_exec", "update_exec", "hist_load"}

\* the goroutines that are at a durable I/O step
AtDurableIO ==
    (IF sweeper.pc = "rows" THEN {"sweeper"} ELSE {})
    \cup (IF \E p \in Procs : call[p].pc \in RequestIO
          THEN {"request"} ELSE {})

SweepRanAlone ==
    /\ sweeper.sweeps = 1 /\ sweeper.pc \in {"idle", "waiting"}
    /\ \A p \in Procs : call[p].pc = "init"

\* one sign-out-all request ran from the initial state and nothing else did
AdminRanAlone ==
    /\ sweeper.sweeps = 0 /\ sweeper.pc \in {"idle", "waiting"}
    /\ \E p \in Procs :
          /\ Done(p) /\ call[p].op = "all"
          /\ \A q \in Procs \ {p} : call[q].pc = "init"

\* C28: the nightly sweep and the administrative sign-out-all are one
\* operation: run alone from the same state and without a storage error,
\* either of them ends with the presence map empty, one session appended
\* for each identity that was present, the snapshot file holding the empty
\* map, and the lock free.
C28_SweepIsSignOutAll ==
    ((SweepRanAlone \/ AdminRanAlone) /\ NoStorageError)
    => /\ currentAttendees = EmptyMap
       /\ {IntervalOf(i) : i \in DOMAIN sessionBy} = DOMAIN closures
       /\ Len(sessions) = Cardinality(DOMAIN closures)
       /\ snapFile = FileOf(EmptyMap)
       /\ mu = "free"

\* C29: every row of the sessions table, whichever path appended it, has a
\* signout_time strictly later than its signin_time, as stored (RFC3339,
\* whole seconds).
C29_EndAfterStart ==
    \A i \in DOMAIN sessions :
        sessions[i].signout_time > sessions[i].signin_time

\* ---- startNightlyCleanup on a wall clock with daylight-saving days ----
\* The clock is counted in hours from a local midnight. The calendar of
\* now.Location(): the days, in hours; the second is the day the clocks go
\* forward at 02:00, the fourth the day they go back at 02:00.
DayHours == <<24, 23, 24, 25, 24, 24>>

DayLen(d) == IF d \in DOMAIN DayHours THEN DayHours[d] ELSE AddHours

\* the hour at which day d starts
RECURSIVE DayStart(_)
DayStart(d) == IF d <= 1 THEN 0 ELSE DayStart(d - 1) + DayLen(d - 1)

ClockEnd == DayStart(Len(DayHours))

\* now.Year(), now.Month(), now.Day(): the day that hour t lies in
DayOfHour(t) ==
    CHOOSE d \in 1..(Len(DayHours) + 2) :
        DayStart(d) <= t /\ t < DayStart(d + 1)

\* the local time of day of hour t
LocalHour(t) ==
    LET d == DayOfHour(t)
        off == t - DayStart(d)
    IN  IF off < 2 THEN off ELSE off - (DayLen(d) - AddHours)

\* time.Date(now.Year(), now.Month(), now.Day(), 4, 0, 0, 0, loc)
DateAtFour(t) ==
    LET d == DayOfHour(t)
    IN  CHOOSE x \in DayStart(d)..(DayStart(d + 1) - 1) :
            LocalHour(x) = FourAMHour

\* if next.Before(now) { next = next.Add(24 * time.Hour) }
NextWake(t) ==
    IF DateAtFour(t) < t THEN DateAtFour(t) + AddHours ELSE DateAtFour(t)

\* now := time.Now(); next := ...; timer := time.NewTimer(next.Sub(now))
cleanupComputeWall ==
    /\ main.pc = "serving"
    /\ sweeper.pc = "idle"
    /\ sweeper' = [sweeper EXCEPT !.pc = "waiting", !.next = NextWake(now)]
    /\ UNCHANGED <<main, lastSaved, now, members, userDB, currentAttendees,
                   scanHistory, scanLog, sessions, snapFile, mu, call,
                   closures, sessionBy>>

\* an hour passes; after a wake-up the loop reads the clock later than the
\* instant it waited for
TickHour ==
    /\ now < ClockEnd
    /\ now' = now + 1
    /\ UNCHANGED <<main, lastSaved, members, userDB, currentAttendees,
                   scanHistory, scanLog, sessions, snapFile, mu, call,
                   sweeper, closures, sessionBy>>

\* the process is started at any hour of the calendar
InitWall ==
    /\ now \in 0..ClockEnd
    /\ members = InitMembers
    /\ userDB = CacheOf(InitMembers)
    /\ currentAttendees \in {m \in InitMaps : MapLen(m) <= 1}
    /\ snapFile = FileOf(currentAttendees)
    /\ scanHistory = <<>>
    /\ scanLog = <<>>
    /\ sessions = <<>>
    /\ mu = "free"
    /\ call = [p \in Procs |-> IdleCall]
    /\ sweeper = IdleSweeper
    /\ main = Serving
    /\ closures = EmptyMap
    /\ sessionBy = <<>>
    /\ lastSaved = currentAttendees

NextWall ==
    \/ TickHour
    \/ cleanupComputeWall
    \/ cleanupLock
    \/ cleanupClear
    \/ cleanupRow

SpecWall == InitWall /\ [][NextWall]_vars

\* the earliest hour not before t whose local time of day is 04:00
EarliestFourAM(t) ==
    CHOOSE x \in t..(t + AddHours + 1) :
        /\ LocalHour(x) = FourAMHour
        /\ \A y \in t..(x - 1) : LocalHour(y) # FourAMHour

\* C30: in every cycle of the cleanup loop the instant it waits for is the
\* earliest instant not before now at which the local time is 04:00:
\* today's 04:00 when that has not passed, else 04:00 of the next calendar
\* day, also when a day has 23 or 25 hours.
C30_WakeAtFourLocal ==
    [][(sweeper.pc = "idle" /\ sweeper'.pc = "waiting")
       => sweeper'.next = EarliestFourAM(now)]_vars

\* C31: whenever no member operation is in flight and no reload query has
\* failed, the cache userDB equals the members table keyed by uid, under
\* any interleaving of concurrent member operations.
C31_CacheFollowsTable ==
    ( /\ \A p \in Procs : call[p].pc \in {"init", "done"}
      /\ \A p \in Procs : ~call[p].reloadErr )
    => userDB = CacheOf(members)

\* ---- scans against PUT and DELETE /members/{id}, within one clock tick ----
NextTags ==
    \/ \E p \in Procs : ScanRequest(p)
    \/ \E p \in Procs : DeleteRequest(p)
    \/ \E p \in Procs, id \in MemberIDs, uid \in NewUIDs, d \in NewDiscordIDs :
          UpdateRequest(p, id, uid, d)
    \/ \E p \in Procs : ScanStep(p)
    \/ \E p \in Procs : EngineStep(p)
    \/ \E p \in Procs : MemberStep(p)
    \/ \E p \in Procs : handleMemberUpdate(p)

SpecTags == Init /\ [][NextTags]_vars

\* no create, update or delete of a member is being served
NoMemberOp ==
    \A p \in Procs :
        call[p].op \in {"create", "update", "delete"} => Done(p)

\* C32: once the member operations have completed, every uid in the
\* presence map is the uid of a row of the members table, under any
\* interleaving of sign-ins, member deletes and member updates.
C32_PresentTagsResolve ==
    NoMemberOp => DOMAIN currentAttendees \subseteq {m.UID : m \in members}

\* ---- concurrent sign-ins and sign-outs against the snapshot file ----
\* a sign-in or a sign-out has been answered
ToggleCompleted ==
    \E p \in Procs : Done(p) /\ call[p].resp \in {"in", "out"}

OpenAtStart == [u \in {"U1", "U2"} |-> 0]

InitCrash == Init /\ currentAttendees = OpenAtStart

\* sign-outs only, one request at a time, the sweep, kills and restarts
NextCrash ==
    \/ loadCurrentAttendees
    \/ mainListen
    \/ Crash
    \/ Tick
    \/ \E p \in Procs : Quiet /\ SignOutRequest(p)
    \/ \E p \in Procs : Quiet /\ SignoutAllRequest(p)
    \/ \E p \in Procs : findByDiscordID(p)
    \/ \E p \in Procs : handleSignOutCheck(p)
    \/ \E p \in Procs : performSignOutDelete(p)
    \/ \E p \in Procs : performSignOutAppend(p)
    \/ \E p \in Procs : saveCurrentAttendeesCopy(p)
    \/ \E p \in Procs : saveCurrentAttendeesWrite(p)
    \/ \E p \in Procs : SignoutAllStep(p)
    \/ cleanupCompute
    \/ cleanupLock
    \/ cleanupClear
    \/ cleanupRow

SpecCrash == InitCrash /\ [][NextCrash]_vars

\* a kill has cut a sign-out, a sign-out-all or a sweep short
CutShort ==
    \/ \E p \in Procs : /\ call[p].resp = "killed"
                        /\ call[p].op \in {"signout", "all"}
    \/ sweeper.cut

\* the process has started again and has read the snapshot file
Restored == main.boots > 0 /\ main.pc = "loaded" /\ main.loaded = "json"

\* the session rows written for one interval
RowsOf(iv) == {i \in DOMAIN sessionBy : IntervalOf(i) = iv}

RemovesEntry(p) ==
    /\ call[p].pc = "so_delete" /\ call'[p].pc = "so_append"
    /\ call[p].member.UID \in DOMAIN currentAttendees

\* performSignOut of p inserts its session row
AppendsSession(p) ==
    /\ call[p].pc = "so_append"
    /\ Len(sessions') = Len(sessions) + 1

\* C35: the session a sign-out (scan or Discord sign-out) appends carries
\* as start time the start time of the map entry this sign-out actually
\* removed, whatever sweeps, sign-out-all requests and new sign-ins of the
\* same identity run between its presence check and its removal.
C35_StartOfRemovedEntry ==
    [][\A p \in Procs :
          /\ RemovesEntry(p)
             => currentAttendees[call[p].member.UID] = call[p].signInTime
          /\ AppendsSession(p)
             => sessionBy'[Len(sessions')].start = call[p].signInTime]_vars

\* ---- a sign-out whose session insert fails ----
\* the Discord sign-out of p removed the entry and its insert failed
AppendFailed(p) ==
    /\ Done(p) /\ call[p].op = "signout" /\ call[p].resp = "500"
    /\ call[p].appendErrs > 0

\* C36: when the session insert of a sign-out fails, the snapshot file is
\* still rewritten without the identity, so a restart after the failed
\* insert does not bring the identity back as present.
C36_FailedAppendStillSaves ==
    \A p \in Procs :
        AppendFailed(p)
        => /\ snapFile.kind = "json"
           /\ call[p].member.UID \notin DOMAIN Unmarshal(snapFile.entries)
           /\ Restored => call[p].member.UID \notin DOMAIN currentAttendees

\* ---- POST /import-members ----
\* the longest members.json that is imported here
MaxFile == 2

\* the members a file can list: one whose uid is in the table already
\* (with another discord_id) and two whose uids are new
FileMembers ==
    { [ID |-> 0, UID |-> "U1", DiscordID |-> "D9"],
      [ID |-> 0, UID |-> "U3", DiscordID |-> "D3"],
      [ID |-> 0, UID |-> "U4", DiscordID |-> "D4"] }

\* the contents of members.json that json.Unmarshal accepts
ImportFiles ==
    UNION {[1..n -> FileMembers] : n \in 0..MaxFile}

\* what os.ReadFile and json.Unmarshal make of members.json
FileKinds == {"json", "missing", "malformed"}

ImportRequest(p, kind, file) ==
    /\ main.pc = "serving"
    /\ call[p].pc = "init"
    /\ \A q \in Procs : q < p => call[q].pc # "init"
    /\ kind # "json" => file = <<>>
    /\ call' = [call EXCEPT ![p] =
                  [IdleCall EXCEPT
                     !.pc = "import_read", !.op = "import", !.arg = kind,
                     !.file = file,
                     !.prior = {q \in Procs : Done(q)}]]
    /\ UNCHANGED <<main, lastSaved, now, members, userDB, currentAttendees,
                   scanHistory, scanLog, sessions, snapFile, mu, sweeper,
                   closures, sessionBy>>

\* data, err := os.ReadFile(membersFilePath); json.Unmarshal(data, &members):
\* 500 on either error; importedCount := 0
handleImportRead(p) ==
    /\ call[p].pc = "import_read"
    /\ IF call[p].arg # "json"
       THEN call' = [call EXCEPT ![p].pc = "done", ![p].resp = "500"]
       ELSE call' = [call EXCEPT
                       ![p].pc = IF call[p].file = <<>> THEN "reload_query"
                                 ELSE "import_rows",
                       ![p].rows = call[p].file, ![p].count = 0]
    /\ UNCHANGED <<main, lastSaved, now, members, userDB, currentAttendees,
                   scanHistory, scanLog, sessions, snapFile, mu, sweeper,
                   closures, sessionBy>>

\* importedCount++ after every INSERT OR IGNORE that returned no error
Imported(rows, m) == 1

\* one turn of: for _, m := range members {
\*     INSERT OR IGNORE INTO members (name, uid, discord_id) VALUES (...);
\*     if err != nil { log; continue }; importedCount++ }
\* and after the last turn loadMembersIntoCache()
handleImportRow(p) ==
    LET m == Head(call[p].rows)
        rest == Tail(call[p].rows)
        nextPc == IF rest = <<>> THEN "reload_query" ELSE "import_rows"
    IN
    /\ call[p].pc = "import_rows"
    /\ \/ /\ UIDTaken(members, m.UID, NoMember.ID)
          /\ UNCHANGED members
          /\ call' = [call EXCEPT ![p].pc = nextPc, ![p].rows = rest,
                         ![p].count = @ + Imported(members, m)]
       \/ /\ ~UIDTaken(members, m.UID, NoMember.ID)
          /\ members' = members \cup {[m EXCEPT !.ID = LastInsertId(members)]}
          /\ call' = [call EXCEPT ![p].pc = nextPc, ![p].rows = rest,
                         ![p].count = @ + Imported(members, m),
                         ![p].added = @ + 1]
       \/ /\ UNCHANGED members
          /\ call' = [call EXCEPT ![p].pc = nextPc, ![p].rows = rest,
                         ![p].insertErrs = @ + 1]
    /\ UNCHANGED <<main, lastSaved, now, userDB, currentAttendees,
                   scanHistory, scanLog, sessions, snapFile, mu, sweeper,
                   closures, sessionBy>>

\* imports of members.json, one request at a time
NextImport ==
    \/ \E p \in Procs, kind \in FileKinds, file \in ImportFiles :
          Quiet /\ ImportRequest(p, kind, file)
    \/ \E p \in Procs : handleImportRead(p)
    \/ \E p \in Procs : handleImportRow(p)
    \/ \E p \in Procs : loadMembersIntoCacheQuery(p)
    \/ \E p \in Procs : loadMembersIntoCacheAssign(p)

SpecImport == Init /\ [][NextImport]_vars

\* an import that was answered 200
Imports(p) == Done(p) /\ call[p].op = "import" /\ call[p].resp = "200"

\* q imports a file that an earlier import has brought in without an error
SecondImport(q) ==
    /\ call[q].op = "import"
    /\ \E p \in call[q].prior :
          /\ Imports(p) /\ call[p].file = call[q].file
          /\ call[p].insertErrs = 0

\* no reload of the cache has failed
ReloadsDone == \A p \in Procs : ~call[p].reloadErr

\* C37: the import ignores uids that exist and is idempotent: importing the
\* same file a second time leaves the members table as the first import
\* left it, and the cache with it; members that exist are left as they
\* are; and the count the answer reports is the number of members added.
C37_ImportIdempotent ==
    /\ [][\A q \in Procs :
             (call[q].pc = "import_rows" /\ SecondImport(q))
             => members' = members]_vars
    /\ [][members \subseteq members']_vars
    /\ [](\A p \in Procs :
             /\ (Imports(p) /\ Quiet /\ ReloadsDone)
                => userDB = CacheOf(members)
             /\ Imports(p) => call[p].count = call[p].added)

====
